---- MODULE Spec2Model ----
(***************************************************************************)
(* The client-side record store of the task management application        *)
(* (src/src/contexts/DataContext.tsx): the in-memory collections, the      *)
(* `users` slot of local storage, the add/update/delete operations, the    *)
(* notification generator and the overdue scan.                            *)
(*                                                                         *)
(* Conventions.  A JavaScript object is a record; an absent (undefined)    *)
(* property is a field outside the record's DOMAIN; object spread          *)
(* {...a, ...b} is Merge(a, b).  An identifier is the decimal string of a  *)
(* number and is modelled by that number; the empty string '' is NoId.     *)
(* A Date is <<"Date", t>> and its JSON form <<"ISO", t>>.  A template     *)
(* string is the sequence of its pieces.  A task number is the sequence of *)
(* its characters.                                                         *)
(***************************************************************************)
EXTENDS Integers, Sequences, FiniteSets, TLC

(* ------------------------------ bounds -------------------------------- *)

\* The number of events (operation calls and timer firings) of a run.
MaxEvents == 3

\* The same for the runs that take every operation of the store.
MaxEventsAll == 2

\* The same for the runs of milestone toggles and task type changes.
MaxToggles == 2

(* --------------------------- JavaScript values ------------------------ *)

NoId == 0

Merge(a, b) ==
  [k \in (DOMAIN a) \cup (DOMAIN b) |-> IF k \in DOMAIN b THEN b[k] ELSE a[k]]

Has(r, k) == k \in DOMAIN r

Date(t) == <<"Date", t>>

\* A text of n characters, all c (the model keeps a text's length)
Text(c, n) == [i \in 1..n |-> c]

\* new Date(d).getTime() for a Date or for its ISO string
DateValue(d) == d[2]

\* new Date(d).toLocaleDateString()
LocaleDate(d) == ToString(DateValue(d))

\* Array.prototype.find by id: the index of the first record with that id, 0 for none
IndexOfId(s, id) ==
  IF \E i \in 1..Len(s) : s[i].id = id
    THEN CHOOSE i \in 1..Len(s) : s[i].id = id /\ \A j \in 1..(i - 1) : s[j].id # id
    ELSE 0

\* xs.find(x => x.id === id)?.name || fallback
NameOf(s, id, fallback) ==
  IF IndexOfId(s, id) = 0 THEN fallback ELSE s[IndexOfId(s, id)].name

Max(S) == CHOOSE m \in S : \A n \in S : n <= m

Range(s) == {s[i] : i \in 1..Len(s)}

(* ------------------- numbers and strings of digits -------------------- *)

Digits == <<"0", "1", "2", "3", "4", "5", "6", "7", "8", "9">>

IsDigit(c) == \E d \in 1..10 : Digits[d] = c

DigitValue(c) == (CHOOSE d \in 1..10 : Digits[d] = c) - 1

\* Number.prototype.toString for a non-negative integer
RECURSIVE NumToString(_)
NumToString(n) ==
  IF n < 10 THEN <<Digits[n + 1]>>
  ELSE Append(NumToString(n \div 10), Digits[(n % 10) + 1])

\* String.prototype.padStart
PadStart(s, width, c) ==
  IF Len(s) >= width THEN s ELSE [i \in 1..(width - Len(s)) |-> c] \o s

\* parseInt on a string of decimal digits
RECURSIVE ParseInt(_)
ParseInt(s) ==
  IF s = <<>> THEN 0
  ELSE 10 * ParseInt(SubSeq(s, 1, Len(s) - 1)) + DigitValue(s[Len(s)])

\* Mutation of MatchesTaskNumber: any number of digits matches.
MatchesTaskNumber_AnyLength(num) ==
  /\ Len(num) >= 2
  /\ num[1] = "T"
  /\ \A i \in 2..Len(num) : IsDigit(num[i])

\* /^T\d{3}$/.test(num)
MatchesTaskNumber(num) ==
  /\ Len(num) = 4
  /\ num[1] = "T"
  /\ \A i \in 2..4 : IsDigit(num[i])

(* --------------------------- the seeded data -------------------------- *)

\* The seeded dates (2024) all lie in the past of every run.
Seeded == Date(0)

defaultUsers ==
  << [id |-> 1, name |-> "Admin User", email |-> "admin@ca.com", role |-> "admin",
      status |-> "active", createdAt |-> Seeded, password |-> "admin123"],
     [id |-> 2, name |-> "John Doe", email |-> "john@ca.com", role |-> "user",
      status |-> "active", createdAt |-> Seeded, password |-> "john123"],
     [id |-> 3, name |-> "Jane Smith", email |-> "jane@ca.com", role |-> "user",
      status |-> "active", createdAt |-> Seeded, password |-> "jane123"] >>

defaultClients ==
  << [id |-> 1, name |-> "ABC Limited", isActive |-> TRUE, createdAt |-> Seeded],
     [id |-> 2, name |-> "XYZ Corporation", isActive |-> TRUE, createdAt |-> Seeded] >>

Milestone(i, n) == [id |-> i, name |-> n, order |-> i]

defaultTaskTypes ==
  << [id |-> 1, name |-> "Tax Return Preparation", isActive |-> TRUE,
      createdAt |-> Seeded, updatedAt |-> Seeded,
      milestones |-> << Milestone(1, "Document Collection"), Milestone(2, "Data Entry"),
                        Milestone(3, "Review & Verification"),
                        Milestone(4, "Final Submission") >>],
     [id |-> 2, name |-> "Audit Preparation", isActive |-> TRUE,
      createdAt |-> Seeded, updatedAt |-> Seeded,
      milestones |-> << Milestone(1, "Document Gathering"), Milestone(2, "Trial Balance"),
                        Milestone(3, "Working Papers"), Milestone(4, "Final Review") >>],
     [id |-> 3, name |-> "Monthly Financial Statements", isActive |-> TRUE,
      createdAt |-> Seeded, updatedAt |-> Seeded,
      milestones |-> << Milestone(1, "Journal Entries"),
                        Milestone(2, "Bank Reconciliation"),
                        Milestone(3, "Financial Statements") >>],
     [id |-> 4, name |-> "Compliance Review", isActive |-> TRUE,
      createdAt |-> Seeded, updatedAt |-> Seeded,
      milestones |-> << Milestone(1, "Regulation Analysis"),
                        Milestone(2, "Compliance Check"), Milestone(3, "Gap Analysis"),
                        Milestone(4, "Remediation Plan") >>] >>

SeedEntry(i, u, n, a) ==
  [id |-> i, userId |-> u, userName |-> n, action |-> a, timestamp |-> Seeded]

defaultTasks ==
  << [id |-> 1, taskNumber |-> <<"T", "0", "0", "1">>, title |-> "Tax Return Preparation",
      taskTypeId |-> 1, clientId |-> 2, assignedToId |-> 2, assignedById |-> 1,
      status |-> "pending", priority |-> "high", dueDate |-> Seeded,
      createdAt |-> Seeded, assignedUsers |-> <<2>>,
      activityLog |-> << SeedEntry(1, 1, "Admin User",
                            <<"Task created and assigned to ", "John Doe">>) >>],
     [id |-> 2, taskNumber |-> <<"T", "0", "0", "2">>, title |-> "Audit Preparation",
      taskTypeId |-> 2, clientId |-> 2, assignedToId |-> 2, assignedById |-> 1,
      status |-> "pending", priority |-> "urgent", dueDate |-> Seeded,
      createdAt |-> Seeded, assignedUsers |-> <<2>>,
      activityLog |-> << SeedEntry(1, 1, "Admin User",
                            <<"Task created and assigned to ", "John Doe">>) >>],
     [id |-> 3, taskNumber |-> <<"T", "0", "0", "3">>,
      title |-> "Monthly Financial Statements",
      taskTypeId |-> 3, clientId |-> 1, assignedToId |-> 3, assignedById |-> 1,
      status |-> "in-progress", priority |-> "medium", dueDate |-> Seeded,
      createdAt |-> Seeded, assignedUsers |-> <<3>>,
      activityLog |-> << SeedEntry(1, 1, "Admin User",
                            <<"Task created and assigned to ", "Jane Smith">>),
                         SeedEntry(2, 3, "Jane Smith",
                            <<"Status changed to In Progress">>) >>] >>

defaultChatMessages ==
  << [id |-> 1, taskId |-> 1, userId |-> 1, userName |-> "Admin User",
      message |-> Text("a", 103),
      timestamp |-> Seeded],
     [id |-> 2, taskId |-> 1, userId |-> 2, userName |-> "John Doe",
      message |-> Text("b", 56), timestamp |-> Seeded],
     [id |-> 3, taskId |-> 2, userId |-> 1, userName |-> "Admin User",
      message |-> Text("c", 62), timestamp |-> Seeded],
     [id |-> 4, taskId |-> 3, userId |-> 3, userName |-> "Jane Smith",
      message |-> Text("d", 63), timestamp |-> Seeded] >>

defaultNotifications ==
  << [id |-> 1, type |-> "task", title |-> <<"Task overdue">>,
      message |-> <<"Tax Return Preparation", " was due on ", LocaleDate(Seeded)>>,
      timestamp |-> Seeded, isRead |-> FALSE, userId |-> 2, taskId |-> 1,
      priority |-> "urgent"],
     [id |-> 2, type |-> "task", title |-> <<"Task overdue">>,
      message |-> <<"Audit Preparation", " was due on ", LocaleDate(Seeded)>>,
      timestamp |-> Seeded, isRead |-> FALSE, userId |-> 2, taskId |-> 2,
      priority |-> "urgent"],
     [id |-> 3, type |-> "task", title |-> <<"Task overdue">>,
      message |-> <<"Monthly Financial Statements", " was due on ", LocaleDate(Seeded)>>,
      timestamp |-> Seeded, isRead |-> FALSE, userId |-> 3, taskId |-> 3,
      priority |-> "medium"],
     [id |-> 4, type |-> "message", title |-> <<"New message in ", "Tax Return Preparation">>,
      message |-> <<"Please start working on this tax return preparation...">>,
      timestamp |-> Seeded, isRead |-> FALSE, userId |-> 2, taskId |-> 1],
     [id |-> 5, type |-> "approval", title |-> <<"Task pending approval">>,
      message |-> <<"Monthly Financial Statements is ready for review">>,
      timestamp |-> Seeded, isRead |-> FALSE, userId |-> 1, taskId |-> 3] >>


(* ------------------------------- state -------------------------------- *)

VARIABLES
  users,          \* useState: User[]
  clients,        \* useState: Client[]
  taskTypes,      \* useState: TaskType[]
  tasks,          \* useState: Task[]
  chatMessages,   \* useState: ChatMessage[]
  notifications,  \* useState: Notification[]
  lsUsers,        \* localStorage['users']: the serialized array
  now,            \* the clock read by Date.now() and new Date()
  effectPending,  \* the overdue effect is scheduled: tasks or notifications were set
  horizon,        \* the clock value after which no further event is taken
  lastOp,         \* history: the last operation called, with its arguments
  scannedAt,      \* history: the clock value of the last overdue scan
  issued,         \* history: the task numbers addTask has assigned, in order
  usersAtLoad,    \* history: the text localStorage['users'] held when the page loaded
  storage,        \* localStorage: the slots currentUser, chat_1 and chat_lastRead_1_<user>
  session,        \* AuthProvider: user, isAuthenticated, and what its effect met
  chat,           \* TaskChat of task 1: its messages, and what its load effect met
  bell,           \* NotificationBell: lastCheck, its notifications, its effect's dependencies
  provider        \* DataProvider: mounted, and the interval timers that are active

collections == <<users, clients, taskTypes, tasks, chatMessages, notifications>>

\* The state outside DataProvider
page == <<usersAtLoad, storage, session, chat, bell, provider>>

vars == <<users, clients, taskTypes, tasks, chatMessages, notifications, lsUsers, now,
          effectPending, horizon, lastOp, scannedAt, issued, usersAtLoad, storage,
          session, chat, bell, provider>>

Op(name, id, arg) == [op |-> name, id |-> id, arg |-> arg]

(* ------------------------------ JSON ---------------------------------- *)

DateFields == {"createdAt", "updatedAt", "lastLogin", "timestamp", "dueDate"}

\* JSON.stringify of one record: a Date becomes its ISO string
StringifyRecord(r) ==
  [k \in DOMAIN r |-> IF k \in DateFields /\ r[k][1] = "Date"
                        THEN <<"ISO", r[k][2]>> ELSE r[k]]

\* JSON.stringify of an array of records
JSONStringify(s) == [i \in 1..Len(s) |-> StringifyRecord(s[i])]

(* ----------------------- notification generator ----------------------- *)

addNotificationTo(ns, notificationData, t) ==
  Append(ns, Merge(notificationData, [id |-> t, timestamp |-> Date(t)]))

TaskNotificationTitle(type) ==
  CASE type = "created" -> "New task created"
    [] type = "assigned" -> "Task assigned to you"
    [] type = "updated" -> "Task updated"
    [] type = "completed" -> "Task completed"
    [] type = "overdue" -> "Task overdue"

TaskNotificationMessage(task, type) ==
  LET taskTypeName == NameOf(taskTypes, task.taskTypeId, "Unknown Task")
      clientName == NameOf(clients, task.clientId, "Unknown Client")
  IN CASE type = "created" -> <<taskTypeName, " created for ", clientName>>
       [] type = "assigned" -> <<taskTypeName, " for ", clientName>>
       [] type = "updated" -> <<taskTypeName, " has been updated">>
       [] type = "completed" -> <<taskTypeName, " has been marked as completed">>
       [] type = "overdue" -> <<taskTypeName, " was due on ", LocaleDate(task.dueDate)>>

TaskNotificationTarget(task, type) ==
  IF type = "completed" THEN task.assignedById ELSE task.assignedToId

TaskNotificationPriority(task, type) ==
  IF type = "overdue" THEN "urgent" ELSE task.priority

generateTaskNotification(ns, task, type, t) ==
  IF TaskNotificationTarget(task, type) # NoId
    THEN addNotificationTo(ns,
           [type |-> "task", title |-> <<TaskNotificationTitle(type)>>,
            message |-> TaskNotificationMessage(task, type), isRead |-> FALSE,
            userId |-> TaskNotificationTarget(task, type), taskId |-> task.id,
            priority |-> TaskNotificationPriority(task, type)], t)
    ELSE ns

(* ---------------------------- task numbers ---------------------------- *)

existingNumbers(ts) ==
  { ParseInt(Tail(ts[i].taskNumber)) :
      i \in { j \in 1..Len(ts) : /\ Has(ts[j], "taskNumber")
                                 /\ MatchesTaskNumber(ts[j].taskNumber) } }

generateTaskNumber(ts) ==
  LET nextNumber == IF existingNumbers(ts) # {} THEN Max(existingNumbers(ts)) + 1 ELSE 1
  IN <<"T">> \o PadStart(NumToString(nextNumber), 3, "0")

(* ------------------------------- tasks -------------------------------- *)

NewTask(taskData, t) ==
  Merge(taskData,
    [id |-> t,
     taskNumber |-> generateTaskNumber(tasks),
     createdAt |-> Date(t),
     assignedUsers |-> IF Has(taskData, "assignedUsers") THEN taskData.assignedUsers
                       ELSE <<taskData.assignedToId>>,
     activityLog |->
       << [id |-> 1, userId |-> taskData.assignedById,
           userName |-> NameOf(users, taskData.assignedById, "Unknown"),
           action |-> <<"Task created and assigned to ",
                        NameOf(users, taskData.assignedToId, "Unknown")>>,
           timestamp |-> Date(t)] >>])

\* Mutation of NotificationsAfterAddTask: the 'assigned' notification is left out.
NotificationsAfterAddTask_CreatedOnly(ns, newTask, t) ==
  generateTaskNotification(ns, newTask, "created", t)

NotificationsAfterAddTask(ns, newTask, t) ==
  generateTaskNotification(generateTaskNotification(ns, newTask, "created", t),
                           newTask, "assigned", t)

\* The task forms the presentation layer submits (handleCreateTask), and a call of
\* the operation that leaves assignedUsers out.
TaskInputs(t) ==
  { [title |-> "Quarterly Review", taskTypeId |-> 1, clientId |-> 1, assignedToId |-> 3,
     assignedUsers |-> <<>>, assignedById |-> 1, priority |-> "low",
     status |-> "pending", dueDate |-> Date(t)],
    [title |-> "Year End Audit", taskTypeId |-> 2, clientId |-> 9, assignedToId |-> 1,
     assignedById |-> 1, priority |-> "urgent", status |-> "pending",
     dueDate |-> Seeded],
    [title |-> "Unassigned", taskTypeId |-> 1, clientId |-> 1, assignedToId |-> NoId,
     assignedUsers |-> <<>>, assignedById |-> NoId, priority |-> "medium",
     status |-> "pending", dueDate |-> Seeded] }

addTask ==
  /\ ~effectPending
  /\ now < horizon
  /\ \E taskData \in TaskInputs(now + 1) :
       LET t == now + 1
           newTask == NewTask(taskData, t)
       IN /\ tasks' = Append(tasks, newTask)
          /\ notifications' = NotificationsAfterAddTask(notifications, newTask, t)
          /\ issued' = Append(issued, newTask.taskNumber)
          /\ lastOp' = Op("addTask", t, taskData)
  /\ now' = now + 1
  /\ effectPending' = TRUE
  /\ UNCHANGED <<users, clients, taskTypes, chatMessages, lsUsers, horizon, scannedAt>>
  /\ UNCHANGED page

\* s.replace('-', ' ') on a status
ReplaceHyphen(status) == IF status = "in-progress" THEN "in progress" ELSE status

\* Mutation of StatusChanged: the comparison with the prior status is left out.
StatusChanged_AnyStatus(originalTask, updates) == Has(updates, "status")

StatusChanged(originalTask, updates) ==
  /\ Has(updates, "status")
  /\ updates.status # originalTask.status

ActivityEntry(originalTask, updates, t) ==
  LET by == IF Has(updates, "updatedById") /\ updates.updatedById # NoId
              THEN updates.updatedById ELSE originalTask.assignedById
  IN [id |-> t, userId |-> by, userName |-> NameOf(users, by, "Unknown"),
      action |-> <<"Status changed from ", ReplaceHyphen(originalTask.status), " to ",
                   ReplaceHyphen(updates.status)>>,
      timestamp |-> Date(t)]

UpdatedTask(originalTask, updates, t) ==
  IF StatusChanged(originalTask, updates)
    THEN Merge(Merge(originalTask, updates),
               [activityLog |->
                  Append(IF Has(originalTask, "activityLog")
                           THEN originalTask.activityLog ELSE <<>>,
                         ActivityEntry(originalTask, updates, t))])
    ELSE Merge(originalTask, updates)

EmitsStatusNotification(originalTask, updates) == Has(updates, "status")

NotificationsAfterUpdateTask(ns, originalTask, updates, t) ==
  IF EmitsStatusNotification(originalTask, updates)
    THEN IF updates.status = "completed"
           THEN generateTaskNotification(ns, UpdatedTask(originalTask, updates, t),
                                         "completed", t)
           ELSE generateTaskNotification(ns, UpdatedTask(originalTask, updates, t),
                                         "updated", t)
    ELSE ns

\* An id that no collection holds.
AbsentId == 9

TaskIds == Range([i \in 1..Len(tasks) |-> tasks[i].id]) \cup {AbsentId}

\* The patches the presentation layer passes: a status change (handleStatusChange,
\* handleApprove, handleReject), a transfer (handleTaskTransfer), a milestone toggle
\* (handleMilestoneToggle).
TaskPatches(t) ==
  { [status |-> st, updatedById |-> 2] : st \in {"in-progress", "completed", "pending"} }
  \cup { [status |-> "approved", approvedBy |-> 1] }
  \cup { [assignedToId |-> 1, updatedById |-> 1] }
  \cup { [milestoneProgress |->
            << [milestoneId |-> 1, completed |-> TRUE, completedById |-> 2],
               [milestoneId |-> 4, completed |-> TRUE, completedById |-> 2] >>,
          updatedById |-> 2, updatedAt |-> Date(t)] }

updateTask ==
  /\ ~effectPending
  /\ now < horizon
  /\ \E id \in TaskIds : \E updates \in TaskPatches(now + 1) :
       LET t == now + 1
           i == IndexOfId(tasks, id)
       IN /\ lastOp' = Op("updateTask", id, updates)
          /\ IF i = 0
               THEN UNCHANGED <<tasks, notifications, effectPending>>
               ELSE /\ tasks' = [j \in 1..Len(tasks) |->
                                   IF tasks[j].id = id
                                     THEN UpdatedTask(tasks[i], updates, t)
                                     ELSE tasks[j]]
                    /\ notifications' =
                         NotificationsAfterUpdateTask(notifications, tasks[i], updates, t)
                    /\ effectPending' = TRUE
  /\ now' = now + 1
  /\ UNCHANGED <<users, clients, taskTypes, chatMessages, lsUsers, horizon, scannedAt, issued>>
  /\ UNCHANGED page

deleteTask ==
  /\ ~effectPending
  /\ now < horizon
  /\ \E id \in TaskIds :
       /\ tasks' = SelectSeq(tasks, LAMBDA task : task.id # id)
       /\ lastOp' = Op("deleteTask", id, <<>>)
  /\ now' = now + 1
  /\ effectPending' = TRUE
  /\ UNCHANGED <<users, clients, taskTypes, chatMessages, notifications, lsUsers, horizon, scannedAt, issued>>
  /\ UNCHANGED page

(* ---------------------------- overdue scan ---------------------------- *)

IsOverdue(task, t) ==
  /\ DateValue(task.dueDate) < t
  /\ task.status # "completed"
  /\ task.status # "approved"

\* title.includes('overdue'), over the texts the program puts in a title
IncludesOverdue(title) == \E i \in 1..Len(title) : title[i] \in {"Task overdue"}

\* Mutation of hasOverdueNotification: the notification of any task counts.
hasOverdueNotification_AnyTask(ns, task) ==
  \E i \in 1..Len(ns) :
    /\ Has(ns[i], "taskId")
    /\ ns[i].type = "task"
    /\ IncludesOverdue(ns[i].title)

hasOverdueNotification(ns, task) ==
  \E i \in 1..Len(ns) :
    /\ Has(ns[i], "taskId")
    /\ ns[i].taskId = task.id
    /\ ns[i].type = "task"
    /\ IncludesOverdue(ns[i].title)

\* tasks.forEach of checkOverdueTasks from task k on: every check reads the
\* notifications of the render (seen), every emission appends to the state (acc)
RECURSIVE ScanFrom(_, _, _, _, _)
ScanFrom(acc, seen, ts, k, t) ==
  IF k > Len(ts) THEN acc
  ELSE IF IsOverdue(ts[k], t) /\ ~hasOverdueNotification(seen, ts[k])
         THEN ScanFrom(generateTaskNotification(acc, ts[k], "overdue", t), seen, ts, k + 1, t)
         ELSE ScanFrom(acc, seen, ts, k + 1, t)

checkOverdueTasks(ns, ts, t) == ScanFrom(ns, ns, ts, 1, t)

\* DataProvider after its first render: no effect has run, no timer is installed
NewProvider == [mounted |-> TRUE, timers |-> {}, interval |-> NoId]

\* setInterval returns an id that no active timer has
FreshTimer(timers) ==
  CHOOSE n \in 1..(Cardinality(timers) + 1) :
    n \notin timers /\ \A m \in 1..(n - 1) : m \in timers

\* The cleanup of an effect run: clearInterval(interval), interval being the timer
\* that run installed
Cleanup(p) == [p EXCEPT !.timers = p.timers \ {p.interval}, !.interval = NoId]

\* Mutation of RunEffect: the cleanup of the previous run is left out.
RunEffect_NoCleanup(p) ==
  [p EXCEPT !.timers = p.timers \cup {FreshTimer(p.timers)},
            !.interval = FreshTimer(p.timers)]

\* A run of the effect on the timers: the cleanup of the previous run, then
\* const interval = setInterval(checkOverdueTasks, 60 * 60 * 1000)
RunEffect(p) ==
  [p EXCEPT !.timers = Cleanup(p).timers \cup {FreshTimer(Cleanup(p).timers)},
            !.interval = FreshTimer(Cleanup(p).timers)]

\* useEffect(..., [tasks, notifications]): runs after every render that follows a
\* change of tasks or notifications, before the next event is handled
overdueEffect ==
  /\ effectPending
  /\ notifications' = checkOverdueTasks(notifications, tasks, now)
  /\ effectPending' = (notifications' # notifications)
  /\ scannedAt' = now
  /\ provider' = RunEffect(provider)
  /\ UNCHANGED <<users, clients, taskTypes, tasks, chatMessages, lsUsers, now, horizon,
                 lastOp, issued>>
  /\ UNCHANGED <<usersAtLoad, storage, session, chat, bell>>

\* DataProvider is unmounted: the cleanup of the last effect run is called
unmount ==
  /\ provider.mounted
  /\ ~effectPending
  /\ now < horizon
  /\ provider' = [Cleanup(provider) EXCEPT !.mounted = FALSE]
  /\ lastOp' = Op("unmount", NoId, <<>>)
  /\ now' = now + 1
  /\ UNCHANGED <<users, clients, taskTypes, tasks, chatMessages, notifications, lsUsers,
                 effectPending, horizon, scannedAt, issued>>
  /\ UNCHANGED <<usersAtLoad, storage, session, chat, bell>>

\* setInterval(checkOverdueTasks, 60 * 60 * 1000): a timer that is active fires
intervalFire ==
  /\ provider.timers # {}
  /\ ~effectPending
  /\ now < horizon
  /\ now' = now + 1
  /\ notifications' = checkOverdueTasks(notifications, tasks, now')
  /\ effectPending' = (notifications' # notifications)
  /\ lastOp' = Op("interval", NoId, <<>>)
  /\ scannedAt' = now'
  /\ UNCHANGED <<users, clients, taskTypes, tasks, chatMessages, lsUsers, horizon, issued>>
  /\ UNCHANGED page

(* ------------------------------- users -------------------------------- *)

NewUser(userData, t) == Merge(userData, [id |-> t, createdAt |-> Date(t)])

\* adminUsers.forEach(admin => addNotification(...)) from admin k on
RECURSIVE NotifyAdminsFrom(_, _, _, _, _)
NotifyAdminsFrom(ns, us, k, newUser, t) ==
  IF k > Len(us) THEN ns
  ELSE IF us[k].role = "admin"
         THEN NotifyAdminsFrom(
                addNotificationTo(ns,
                  [type |-> "system", title |-> <<"New user added">>,
                   message |-> <<newUser.name, " has been added to the system">>,
                   isRead |-> FALSE, userId |-> us[k].id], t),
                us, k + 1, newUser, t)
         ELSE NotifyAdminsFrom(ns, us, k + 1, newUser, t)

\* The user forms the presentation layer submits (UserManagement.handleSubmit).
UserInputs ==
  { [name |-> "New User", email |-> "new@ca.com", role |-> "user", status |-> "active",
     password |-> "new123"],
    [name |-> "Second Admin", email |-> "Admin@CA.com", role |-> "admin",
     status |-> "inactive", password |-> "adm456"] }

addUser ==
  /\ ~effectPending
  /\ now < horizon
  /\ \E userData \in UserInputs :
       LET t == now + 1
           newUser == NewUser(userData, t)
       IN /\ users' = Append(users, newUser)
          /\ lsUsers' = JSONStringify(Append(users, newUser))
          /\ notifications' = NotifyAdminsFrom(notifications, users, 1, newUser, t)
          /\ lastOp' = Op("addUser", t, userData)
  /\ now' = now + 1
  /\ effectPending' = (notifications' # notifications)
  /\ UNCHANGED <<clients, taskTypes, tasks, chatMessages, horizon, scannedAt, issued>>
  /\ UNCHANGED page

\* updates[k] || user[k] || fallback
FieldOr(updates, user, k, fallback) ==
  IF Has(updates, k) /\ updates[k] # "" THEN updates[k]
  ELSE IF Has(user, k) /\ user[k] # "" THEN user[k]
  ELSE fallback

\* Mutation of UpdatedUser: isActive is computed from the status before the update.
UpdatedUser_StaleIsActive(user, updates) ==
  Merge(Merge(user, updates),
        [role |-> FieldOr(updates, user, "role", "user"),
         status |-> FieldOr(updates, user, "status", "active"),
         isActive |-> (FieldOr(user, user, "status", "active") = "active")])

UpdatedUser(user, updates) ==
  Merge(Merge(user, updates),
        [role |-> FieldOr(updates, user, "role", "user"),
         status |-> FieldOr(updates, user, "status", "active"),
         isActive |-> (FieldOr(updates, user, "status", "active") = "active")])

UsersAfterUpdate(us, id, updates) ==
  [i \in 1..Len(us) |-> IF us[i].id = id THEN UpdatedUser(us[i], updates) ELSE us[i]]

UserIds == Range([i \in 1..Len(users) |-> users[i].id]) \cup {AbsentId}

UserPatches ==
  { [status |-> "inactive"], [status |-> "active"], [name |-> "Renamed", status |-> ""],
    [role |-> "admin", isActive |-> TRUE, status |-> "inactive"] }

updateUser ==
  /\ ~effectPending
  /\ now < horizon
  /\ \E id \in UserIds : \E updates \in UserPatches :
       /\ users' = UsersAfterUpdate(users, id, updates)
       /\ lsUsers' = JSONStringify(UsersAfterUpdate(users, id, updates))
       /\ lastOp' = Op("updateUser", id, updates)
  /\ now' = now + 1
  /\ UNCHANGED <<clients, taskTypes, tasks, chatMessages, notifications, effectPending,
                 horizon, scannedAt, issued>>
  /\ UNCHANGED page

deleteUser ==
  /\ ~effectPending
  /\ now < horizon
  /\ \E id \in UserIds :
       /\ users' = SelectSeq(users, LAMBDA user : user.id # id)
       /\ lsUsers' = JSONStringify(SelectSeq(users, LAMBDA user : user.id # id))
       /\ lastOp' = Op("deleteUser", id, <<>>)
  /\ now' = now + 1
  /\ UNCHANGED <<clients, taskTypes, tasks, chatMessages, notifications, effectPending,
                 horizon, scannedAt, issued>>
  /\ UNCHANGED page

(* ------------------------------ clients -------------------------------- *)

ClientIds == Range([i \in 1..Len(clients) |-> clients[i].id]) \cup {AbsentId}

addClient ==
  /\ ~effectPending
  /\ now < horizon
  /\ \E clientData \in { [name |-> "New Client", isActive |-> TRUE] } :
       /\ clients' = Append(clients,
                       Merge(clientData, [id |-> now + 1, createdAt |-> Date(now + 1)]))
       /\ lastOp' = Op("addClient", now + 1, clientData)
  /\ now' = now + 1
  /\ UNCHANGED <<users, taskTypes, tasks, chatMessages, notifications, lsUsers,
                 effectPending, horizon, scannedAt, issued>>
  /\ UNCHANGED page

updateClient ==
  /\ ~effectPending
  /\ now < horizon
  /\ \E id \in ClientIds : \E updates \in { [isActive |-> FALSE], [name |-> "Renamed"] } :
       /\ clients' = [i \in 1..Len(clients) |->
                        IF clients[i].id = id THEN Merge(clients[i], updates)
                        ELSE clients[i]]
       /\ lastOp' = Op("updateClient", id, updates)
  /\ now' = now + 1
  /\ UNCHANGED <<users, taskTypes, tasks, chatMessages, notifications, lsUsers,
                 effectPending, horizon, scannedAt, issued>>
  /\ UNCHANGED page

\* Mutation of deleteClient: the tasks of the client are deleted with it.
deleteClient_Cascade ==
  /\ ~effectPending
  /\ now < horizon
  /\ \E id \in ClientIds :
       /\ clients' = SelectSeq(clients, LAMBDA client : client.id # id)
       /\ tasks' = SelectSeq(tasks, LAMBDA task : task.clientId # id)
       /\ lastOp' = Op("deleteClient", id, <<>>)
  /\ now' = now + 1
  /\ UNCHANGED <<users, taskTypes, chatMessages, notifications, lsUsers,
                 effectPending, horizon, scannedAt, issued>>
  /\ UNCHANGED page

deleteClient ==
  /\ ~effectPending
  /\ now < horizon
  /\ \E id \in ClientIds :
       /\ clients' = SelectSeq(clients, LAMBDA client : client.id # id)
       /\ lastOp' = Op("deleteClient", id, <<>>)
  /\ now' = now + 1
  /\ UNCHANGED <<users, taskTypes, tasks, chatMessages, notifications, lsUsers,
                 effectPending, horizon, scannedAt, issued>>
  /\ UNCHANGED page

(* ----------------------------- task types ------------------------------ *)

\* The ids of the task types, the ids tasks still refer to, and an id never used.
TaskTypeIds ==
  Range([i \in 1..Len(taskTypes) |-> taskTypes[i].id])
  \cup Range([i \in 1..Len(tasks) |-> tasks[i].taskTypeId]) \cup {AbsentId}

\* The forms TaskTypeManagement.saveTaskType submits: a milestone list is always there.
TaskTypeInputs(t) ==
  { [name |-> "Payroll", isActive |-> TRUE, milestones |-> <<>>],
    [name |-> "Tax Return Preparation", isActive |-> TRUE,
     milestones |-> << Milestone(1, "Document Collection"), Milestone(t, "Sign-off") >>] }

\* A patch without milestones (a call of the operation that only renames).
TaskTypePatches(t) == TaskTypeInputs(t) \cup { [name |-> "Renamed"] }

addTaskType ==
  /\ ~effectPending
  /\ now < horizon
  /\ \E taskTypeData \in TaskTypeInputs(now + 1) :
       /\ taskTypes' = Append(taskTypes,
                         Merge(taskTypeData, [id |-> now + 1, createdAt |-> Date(now + 1)]))
       /\ lastOp' = Op("addTaskType", now + 1, taskTypeData)
  /\ now' = now + 1
  /\ UNCHANGED <<users, clients, tasks, chatMessages, notifications, lsUsers,
                 effectPending, horizon, scannedAt, issued>>
  /\ UNCHANGED page

\* Mutation of MilestoneExists: the comparison of the ids is inverted.
MilestoneExists_Inverted(newMilestones, progress) ==
  \E m \in 1..Len(newMilestones) : newMilestones[m].id # progress.milestoneId

\* newMilestones.some(milestone => milestone.id === progress.milestoneId)
MilestoneExists(newMilestones, progress) ==
  \E m \in 1..Len(newMilestones) : newMilestones[m].id = progress.milestoneId

syncTaskMilestones(ts, taskTypeId, newMilestones, t) ==
  [i \in 1..Len(ts) |->
     IF ts[i].taskTypeId = taskTypeId
       THEN Merge(ts[i],
              [milestoneProgress |->
                 SelectSeq(IF Has(ts[i], "milestoneProgress")
                             THEN ts[i].milestoneProgress ELSE <<>>,
                           LAMBDA progress : MilestoneExists(newMilestones, progress)),
               updatedAt |-> Date(t)])
       ELSE ts[i]]

MilestoneNotification(userId, taskTypeName) ==
  [type |-> "system", title |-> <<"Task milestones updated">>,
   message |-> <<"Milestones for \"", taskTypeName,
                 "\" tasks have been updated. Please review your tasks.">>,
   isRead |-> FALSE, userId |-> userId, priority |-> "medium"]

\* task.assignedUsers.forEach of notifyMilestoneUpdates from user k on;
\* the result is <<notifications, notifiedUsers>>
RECURSIVE NotifyAssignedFrom(_, _, _, _, _)
NotifyAssignedFrom(acc, assigned, k, taskTypeName, t) ==
  IF k > Len(assigned) THEN acc
  ELSE IF assigned[k] \notin acc[2]
         THEN NotifyAssignedFrom(
                <<addNotificationTo(acc[1],
                    MilestoneNotification(assigned[k], taskTypeName), t),
                  acc[2] \cup {assigned[k]}>>,
                assigned, k + 1, taskTypeName, t)
         ELSE NotifyAssignedFrom(acc, assigned, k + 1, taskTypeName, t)

\* Mutation of NotifyPrimary: the check against notifiedUsers is left out.
NotifyPrimary_NoSet(acc, task, taskTypeName, t) ==
  IF task.assignedToId # NoId
    THEN <<addNotificationTo(acc[1],
             MilestoneNotification(task.assignedToId, taskTypeName), t),
           acc[2] \cup {task.assignedToId}>>
    ELSE acc

\* if (task.assignedToId && !notifiedUsers.has(task.assignedToId)) { ... }
NotifyPrimary(acc, task, taskTypeName, t) ==
  IF task.assignedToId # NoId /\ task.assignedToId \notin acc[2]
    THEN <<addNotificationTo(acc[1],
             MilestoneNotification(task.assignedToId, taskTypeName), t),
           acc[2] \cup {task.assignedToId}>>
    ELSE acc

\* affectedTasks.forEach of notifyMilestoneUpdates from task k on
RECURSIVE NotifyTasksFrom(_, _, _, _, _, _)
NotifyTasksFrom(acc, ts, k, taskTypeId, taskTypeName, t) ==
  IF k > Len(ts) THEN acc
  ELSE IF ts[k].taskTypeId = taskTypeId
         THEN NotifyTasksFrom(
                IF Has(ts[k], "assignedUsers")
                  THEN NotifyAssignedFrom(NotifyPrimary(acc, ts[k], taskTypeName, t),
                                          ts[k].assignedUsers, 1, taskTypeName, t)
                  ELSE NotifyPrimary(acc, ts[k], taskTypeName, t),
                ts, k + 1, taskTypeId, taskTypeName, t)
         ELSE NotifyTasksFrom(acc, ts, k + 1, taskTypeId, taskTypeName, t)

notifyMilestoneUpdates(ns, ts, taskTypeId, taskTypeName, t) ==
  NotifyTasksFrom(<<ns, {}>>, ts, 1, taskTypeId, taskTypeName, t)[1]

\* Mutation of SyncsMilestones: the check that the task type exists is left out.
SyncsMilestones_NoLookup(tts, id, updates) == Has(updates, "milestones")

\* updates.milestones && originalTaskType
SyncsMilestones(tts, id, updates) ==
  /\ Has(updates, "milestones")
  /\ IndexOfId(tts, id) # 0

updateTaskType ==
  /\ ~effectPending
  /\ now < horizon
  /\ \E id \in TaskTypeIds : \E updates \in TaskTypePatches(now + 1) :
       LET t == now + 1 IN
       /\ taskTypes' = [i \in 1..Len(taskTypes) |->
                          IF taskTypes[i].id = id
                            THEN Merge(Merge(taskTypes[i], updates), [updatedAt |-> Date(t)])
                            ELSE taskTypes[i]]
       /\ IF SyncsMilestones(taskTypes, id, updates)
            THEN /\ tasks' = syncTaskMilestones(tasks, id, updates.milestones, t)
                 /\ notifications' =
                      notifyMilestoneUpdates(notifications, tasks, id,
                        NameOf(taskTypes, id, "undefined"), t)
                 /\ effectPending' = TRUE
            ELSE UNCHANGED <<tasks, notifications, effectPending>>
       /\ lastOp' = Op("updateTaskType", id, updates)
  /\ now' = now + 1
  /\ UNCHANGED <<users, clients, chatMessages, lsUsers, horizon, scannedAt, issued>>
  /\ UNCHANGED page

deleteTaskType ==
  /\ ~effectPending
  /\ now < horizon
  /\ \E id \in TaskTypeIds :
       /\ taskTypes' = SelectSeq(taskTypes, LAMBDA taskType : taskType.id # id)
       /\ lastOp' = Op("deleteTaskType", id, <<>>)
  /\ now' = now + 1
  /\ UNCHANGED <<users, clients, tasks, chatMessages, notifications, lsUsers,
                 effectPending, horizon, scannedAt, issued>>
  /\ UNCHANGED page

(* ---------------------------- chat messages ---------------------------- *)

\* The length after which a message is cut in its notification.
PreviewLength == 50

\* message.substring(0, 50) followed by '...' when the message is longer
Preview(message) ==
  SubSeq(message, 1, IF Len(message) < PreviewLength THEN Len(message) ELSE PreviewLength)
  \o (IF Len(message) > PreviewLength THEN <<"...">> ELSE <<>>)

MessageNotification(task, senderName, message, userId) ==
  [type |-> "message", title |-> <<"New message in ", task.title>>,
   message |-> <<senderName, ": ">> \o Preview(message.message),
   isRead |-> FALSE, userId |-> userId, taskId |-> task.id]

\* [task.assignedToId, task.assignedById].filter(id => id !== message.userId)
usersToNotify(task, message) ==
  SelectSeq(<<task.assignedToId, task.assignedById>>, LAMBDA id : id # message.userId)

\* usersToNotify.forEach from recipient k on
RECURSIVE NotifyRecipientsFrom(_, _, _, _, _, _, _)
NotifyRecipientsFrom(ns, recipients, k, task, senderName, message, t) ==
  IF k > Len(recipients) THEN ns
  ELSE IF recipients[k] # NoId
         THEN NotifyRecipientsFrom(
                addNotificationTo(ns,
                  MessageNotification(task, senderName, message, recipients[k]), t),
                recipients, k + 1, task, senderName, message, t)
         ELSE NotifyRecipientsFrom(ns, recipients, k + 1, task, senderName, message, t)

generateMessageNotification(ns, message, t) ==
  IF IndexOfId(tasks, message.taskId) = 0 THEN ns
  ELSE NotifyRecipientsFrom(ns,
         usersToNotify(tasks[IndexOfId(tasks, message.taskId)], message), 1,
         tasks[IndexOfId(tasks, message.taskId)],
         NameOf(users, message.userId, "Unknown User"), message, t)

\* Messages of 49, 50 and 51 characters, from a participant and from a third user.
MessageInputs(t) ==
  { [taskId |-> id, userId |-> u, message |-> Text("m", n), timestamp |-> Date(t)] :
      id \in {1, AbsentId}, u \in {1, 3}, n \in {PreviewLength - 1, PreviewLength + 1} }
  \cup { [taskId |-> 3, userId |-> 8, message |-> Text("m", PreviewLength),
          timestamp |-> Date(t)] }

addChatMessage ==
  /\ ~effectPending
  /\ now < horizon
  /\ \E messageData \in MessageInputs(now + 1) :
       LET t == now + 1
           newMessage == Merge(messageData, [id |-> t])
       IN /\ chatMessages' = Append(chatMessages, newMessage)
          /\ notifications' = generateMessageNotification(notifications, newMessage, t)
          /\ lastOp' = Op("addChatMessage", t, messageData)
  /\ now' = now + 1
  /\ effectPending' = (notifications' # notifications)
  /\ UNCHANGED <<users, clients, taskTypes, tasks, lsUsers, horizon, scannedAt, issued>>
  /\ UNCHANGED page

(* ---------------------------- notifications ---------------------------- *)

NotificationIds ==
  Range([i \in 1..Len(notifications) |-> notifications[i].id]) \cup {AbsentId}

addNotification ==
  /\ ~effectPending
  /\ now < horizon
  /\ \E notificationData \in
          { [type |-> "system", title |-> <<"Backup finished">>,
             message |-> <<"The weekly backup has finished">>, isRead |-> FALSE,
             userId |-> 3] } :
       /\ notifications' = addNotificationTo(notifications, notificationData, now + 1)
       /\ lastOp' = Op("addNotification", now + 1, notificationData)
  /\ now' = now + 1
  /\ effectPending' = TRUE
  /\ UNCHANGED <<users, clients, taskTypes, tasks, chatMessages, lsUsers, horizon, scannedAt,
                 issued>>
  /\ UNCHANGED page

\* Mutation of MarkRead: the flag is toggled instead of set.
MarkRead_Toggle(ns, id) ==
  [i \in 1..Len(ns) |->
     IF ns[i].id = id THEN Merge(ns[i], [isRead |-> ~ns[i].isRead]) ELSE ns[i]]

MarkRead(ns, id) ==
  [i \in 1..Len(ns) |-> IF ns[i].id = id THEN Merge(ns[i], [isRead |-> TRUE]) ELSE ns[i]]

markNotificationAsRead ==
  /\ ~effectPending
  /\ now < horizon
  /\ \E id \in NotificationIds :
       /\ notifications' = MarkRead(notifications, id)
       /\ lastOp' = Op("markNotificationAsRead", id, <<>>)
  /\ now' = now + 1
  /\ effectPending' = TRUE
  /\ UNCHANGED <<users, clients, taskTypes, tasks, chatMessages, lsUsers, horizon, scannedAt,
                 issued>>
  /\ UNCHANGED page

clearNotification ==
  /\ ~effectPending
  /\ now < horizon
  /\ \E id \in NotificationIds :
       /\ notifications' = SelectSeq(notifications, LAMBDA n : n.id # id)
       /\ lastOp' = Op("clearNotification", id, <<>>)
  /\ now' = now + 1
  /\ effectPending' = TRUE
  /\ UNCHANGED <<users, clients, taskTypes, tasks, chatMessages, lsUsers, horizon, scannedAt,
                 issued>>
  /\ UNCHANGED page

clearAllNotifications ==
  /\ ~effectPending
  /\ now < horizon
  /\ \E userId \in UserIds :
       /\ notifications' = SelectSeq(notifications, LAMBDA n : n.userId # userId)
       /\ lastOp' = Op("clearAllNotifications", userId, <<>>)
  /\ now' = now + 1
  /\ effectPending' = TRUE
  /\ UNCHANGED <<users, clients, taskTypes, tasks, chatMessages, lsUsers, horizon, scannedAt,
                 issued>>
  /\ UNCHANGED page

\* Mutation of MarkAllRead: the flag is toggled instead of set.
MarkAllRead_Toggle(ns, userId) ==
  [i \in 1..Len(ns) |->
     IF ns[i].userId = userId THEN Merge(ns[i], [isRead |-> ~ns[i].isRead]) ELSE ns[i]]

MarkAllRead(ns, userId) ==
  [i \in 1..Len(ns) |->
     IF ns[i].userId = userId THEN Merge(ns[i], [isRead |-> TRUE]) ELSE ns[i]]

markAllNotificationsAsRead ==
  /\ ~effectPending
  /\ now < horizon
  /\ \E userId \in UserIds :
       /\ notifications' = MarkAllRead(notifications, userId)
       /\ lastOp' = Op("markAllNotificationsAsRead", userId, <<>>)
  /\ now' = now + 1
  /\ effectPending' = TRUE
  /\ UNCHANGED <<users, clients, taskTypes, tasks, chatMessages, lsUsers, horizon, scannedAt,
                 issued>>
  /\ UNCHANGED page

(* --------------------- presentation layer: users ----------------------- *)

\* null
Null == <<"null">>

\* String.prototype.trim on the texts the forms hold
Trim(s) == IF s \in {"", " ", "  "} THEN "" ELSE s

\* String.prototype.toLowerCase on the e-mail addresses the forms hold
ToLowerCase(s) ==
  CASE s = "Admin@CA.com" -> "admin@ca.com"
    [] s = "NEW@ca.com" -> "new@ca.com"
    [] OTHER -> s

\* formData of UserManagement as the administrator may have filled it in
UserForms ==
  { [name |-> "New User", email |-> "new@ca.com", role |-> "user", status |-> "active",
     password |-> "new123"],
    [name |-> "New Again", email |-> "NEW@ca.com", role |-> "user", status |-> "inactive",
     password |-> "new456"],
    [name |-> "Admin User", email |-> "Admin@CA.com", role |-> "user", status |-> "active",
     password |-> "admin123"],
    [name |-> "  ", email |-> "blank@ca.com", role |-> "user", status |-> "active",
     password |-> "blank1"],
    [name |-> "No Password", email |-> "nopass@ca.com", role |-> "user",
     status |-> "active", password |-> " "] }

\* editingUser when the form adds a user: null, of which editingUser?.id is undefined
NoUser == [id |-> NoId]

\* editingUser: null when the form adds a user, else the user handleEdit took
EditingUsers == {NoUser} \cup Range(users)

\* Mutation of existingUser: the e-mail addresses are compared as they are written.
existingUser_CaseSensitive(us, formData, editingUser) ==
  \E i \in 1..Len(us) :
    /\ us[i].email = formData.email
    /\ us[i].id # editingUser.id

\* users.find(u => u.email.toLowerCase() === formData.email.toLowerCase()
\*                 && u.id !== editingUser?.id)
existingUser(us, formData, editingUser) ==
  \E i \in 1..Len(us) :
    /\ ToLowerCase(us[i].email) = ToLowerCase(formData.email)
    /\ us[i].id # editingUser.id

\* The early returns of handleSubmit
SubmitRejected(us, formData, editingUser) ==
  \/ Trim(formData.name) = "" \/ Trim(formData.email) = ""
  \/ (editingUser = NoUser /\ Trim(formData.password) = "")
  \/ existingUser(us, formData, editingUser)

\* { ...formData, lastLogin: editingUser ? editingUser.lastLogin : null }
SubmittedUserData(formData, editingUser) ==
  IF editingUser = NoUser THEN Merge(formData, [lastLogin |-> Null])
  ELSE IF Has(editingUser, "lastLogin")
         THEN Merge(formData, [lastLogin |-> editingUser.lastLogin])
         ELSE formData

\* The `users` slot after the edit branch: updateUser has written it, then
\* savedUsers.map(u => u.id === editingUser.id ? { ...u, ...userData } : u) is written
SlotAfterEdit(us, id, userData) ==
  LET savedUsers == JSONStringify(UsersAfterUpdate(us, id, userData))
  IN JSONStringify([i \in 1..Len(savedUsers) |->
                      IF savedUsers[i].id = id
                        THEN Merge(savedUsers[i], userData) ELSE savedUsers[i]])

\* The `users` slot after the add branch: addUser has written it, then a record built
\* from userData is pushed to what was read back and the array is written
SlotAfterAdd(us, userData, t) ==
  LET savedUsers == JSONStringify(Append(us, NewUser(userData, t)))
  IN JSONStringify(Append(savedUsers,
                     Merge(userData, [id |-> t, createdAt |-> Date(t),
                                      isActive |-> (userData.status = "active")])))

handleSubmit ==
  /\ ~effectPending
  /\ now < horizon
  /\ \E formData \in UserForms : \E editingUser \in EditingUsers :
       LET t == now + 1
           userData == SubmittedUserData(formData, editingUser)
       IN /\ lastOp' = Op("handleSubmit", editingUser.id, formData)
          /\ IF SubmitRejected(users, formData, editingUser)
               THEN UNCHANGED <<users, lsUsers, notifications, effectPending>>
               ELSE IF editingUser # NoUser
                 THEN /\ users' = UsersAfterUpdate(users, editingUser.id, userData)
                      /\ lsUsers' = SlotAfterEdit(users, editingUser.id, userData)
                      /\ UNCHANGED <<notifications, effectPending>>
                 ELSE /\ users' = Append(users, NewUser(userData, t))
                      /\ lsUsers' = SlotAfterAdd(users, userData, t)
                      /\ notifications' =
                           NotifyAdminsFrom(notifications, users, 1, NewUser(userData, t), t)
                      /\ effectPending' = (notifications' # notifications)
  /\ now' = now + 1
  /\ UNCHANGED <<clients, taskTypes, tasks, chatMessages, horizon, scannedAt, issued>>
  /\ UNCHANGED page

\* handleDelete(userId) by the administrator currentUser, the confirmation answered
handleDelete ==
  /\ ~effectPending
  /\ now < horizon
  /\ \E currentUser \in {u \in Range(users) : u.role = "admin"} :
     \E k \in 1..Len(users) : \E confirmed \in BOOLEAN :
       LET userId == users[k].id IN
       /\ lastOp' = Op("handleDelete", userId,
                       [currentUser |-> currentUser.id, confirmed |-> confirmed])
       /\ IF userId = currentUser.id \/ ~confirmed
            THEN UNCHANGED <<users, lsUsers>>
            ELSE /\ users' = SelectSeq(users, LAMBDA user : user.id # userId)
                 /\ lsUsers' =
                      JSONStringify(
                        SelectSeq(JSONStringify(SelectSeq(users, LAMBDA user : user.id # userId)),
                                  LAMBDA u : u.id # userId))
  /\ now' = now + 1
  /\ UNCHANGED <<clients, taskTypes, tasks, chatMessages, notifications, effectPending,
                 horizon, scannedAt, issued>>
  /\ UNCHANGED page

(* --------------------- presentation layer: tasks ----------------------- *)

\* isAdmin of the session: user?.role === 'admin'
isAdmin(user) == user.role = "admin"

\* The empty text of the form's date field
NoDate == <<>>

\* formData of TaskManagement as the administrator may have filled it in
TaskForms ==
  { [title |-> "Quarterly Review", assignedToId |-> 3, clientId |-> 1, taskTypeId |-> 1,
     priority |-> "low", status |-> "pending", dueDate |-> <<"ISO", 0>>],
    [title |-> " ", assignedToId |-> 3, clientId |-> 1, taskTypeId |-> 1,
     priority |-> "low", status |-> "pending", dueDate |-> <<"ISO", 0>>],
    [title |-> "No Assignee", assignedToId |-> NoId, clientId |-> 1, taskTypeId |-> 1,
     priority |-> "low", status |-> "pending", dueDate |-> <<"ISO", 0>>],
    [title |-> "No Client", assignedToId |-> 2, clientId |-> NoId, taskTypeId |-> 1,
     priority |-> "low", status |-> "pending", dueDate |-> <<"ISO", 0>>],
    [title |-> "No Due Date", assignedToId |-> 2, clientId |-> 1, taskTypeId |-> 1,
     priority |-> "low", status |-> "pending", dueDate |-> NoDate] }

\* The early returns of handleCreateTask
CreateRejected(formData) ==
  \/ Trim(formData.title) = ""
  \/ formData.assignedToId = NoId
  \/ formData.clientId = NoId
  \/ formData.dueDate = NoDate

\* taskData of handleCreateTask
CreatedTaskData(formData, selectedUsers, user, t) ==
  Merge(formData,
    [assignedUsers |-> selectedUsers,
     assignedById |-> user.id,
     createdById |-> user.id,
     actualHours |-> 0,
     dueDate |-> Date(DateValue(formData.dueDate)),
     createdAt |-> Date(t),
     updatedAt |-> Date(t)])

\* handleCreateTask by the administrator user, with the additional users selected
handleCreateTask ==
  /\ ~effectPending
  /\ now < horizon
  /\ \E user \in {u \in Range(users) : isAdmin(u)} :
     \E formData \in TaskForms : \E selectedUsers \in {<<>>, <<2>>} :
       LET t == now + 1 IN
       /\ lastOp' = Op("handleCreateTask", user.id, formData)
       /\ IF CreateRejected(formData)
            THEN UNCHANGED <<tasks, notifications, issued, effectPending>>
            ELSE LET newTask == NewTask(CreatedTaskData(formData, selectedUsers, user, t), t)
                 IN /\ tasks' = Append(tasks, newTask)
                    /\ notifications' = NotificationsAfterAddTask(notifications, newTask, t)
                    /\ issued' = Append(issued, newTask.taskNumber)
                    /\ effectPending' = TRUE
  /\ now' = now + 1
  /\ UNCHANGED <<users, clients, taskTypes, chatMessages, lsUsers, horizon, scannedAt>>
  /\ UNCHANGED page

(* ------------------ presentation layer: task status ------------------- *)

\* userTasks: the tasks TaskManagement lists for the session's user
InUserTasks(task, user) ==
  \/ isAdmin(user)
  \/ task.assignedToId = user.id
  \/ (Has(task, "assignedUsers") /\ user.id \in Range(task.assignedUsers))
  \/ (Has(task, "createdById") /\ task.createdById = user.id)
  \/ task.assignedById = user.id

\* Mutation of canChangeStatus: the test of the assignees is left out.
canChangeStatus_AnyOpenTask(task, user) ==
  IF isAdmin(user) THEN TRUE
  ELSE task.status \notin {"completed", "approved"}

canChangeStatus(task, user) ==
  IF isAdmin(user) THEN TRUE
  ELSE IF task.status \in {"completed", "approved"} THEN FALSE
  ELSE \/ task.assignedToId = user.id
       \/ (Has(task, "assignedUsers") /\ user.id \in Range(task.assignedUsers))

\* Mutation of StatusButton: Start completes the task at once.
StatusButton_StartCompletes(status) ==
  CASE status = "pending" -> "completed"
    [] status = "in-progress" -> "completed"
    [] status = "rejected" -> "pending"
    [] OTHER -> "none"

\* The status the button shown for a task passes to handleStatusChange: Start,
\* Complete, Restart; "none" when no button is shown
StatusButton(status) ==
  CASE status = "pending" -> "in-progress"
    [] status = "in-progress" -> "completed"
    [] status = "rejected" -> "pending"
    [] OTHER -> "none"

\* A call of updateTask(id, updates) from a handler of the presentation layer
callUpdateTask(id, updates, t) ==
  LET i == IndexOfId(tasks, id)
  IN IF i = 0
       THEN UNCHANGED <<tasks, notifications, effectPending>>
       ELSE /\ tasks' = [j \in 1..Len(tasks) |->
                           IF tasks[j].id = id THEN UpdatedTask(tasks[i], updates, t)
                           ELSE tasks[j]]
            /\ notifications' =
                 NotificationsAfterUpdateTask(notifications, tasks[i], updates, t)
            /\ effectPending' = TRUE

\* A click on the status button of a listed task by the session's user, and the
\* answer to the confirmation handleStatusChange asks for before 'completed'
handleStatusChange ==
  /\ ~effectPending
  /\ now < horizon
  /\ \E user \in Range(users) : \E k \in 1..Len(tasks) : \E confirmed \in BOOLEAN :
       LET task == tasks[k]
           newStatus == StatusButton(task.status)
       IN /\ InUserTasks(task, user)
          /\ canChangeStatus(task, user)
          /\ newStatus # "none"
          /\ newStatus # "completed" => confirmed
          /\ lastOp' = Op("handleStatusChange", task.id,
                          [newStatus |-> newStatus, userId |-> user.id,
                           role |-> user.role, confirmed |-> confirmed])
          /\ IF task.status = "completed" /\ newStatus # "completed" /\ ~isAdmin(user)
               THEN UNCHANGED <<tasks, notifications, effectPending>>
               ELSE IF newStatus = "completed" /\ ~confirmed
                 THEN UNCHANGED <<tasks, notifications, effectPending>>
                 ELSE callUpdateTask(task.id,
                        [status |-> newStatus, updatedById |-> user.id], now + 1)
  /\ now' = now + 1
  /\ UNCHANGED <<users, clients, taskTypes, chatMessages, lsUsers, horizon, scannedAt,
                 issued>>
  /\ UNCHANGED page

\* pendingApprovalTasks of ApprovalManagement, which only an administrator is shown
AwaitsApproval(task) == task.status \in {"completed", "pending-approval"}

handleApprove ==
  /\ ~effectPending
  /\ now < horizon
  /\ \E user \in {u \in Range(users) : isAdmin(u)} : \E k \in 1..Len(tasks) :
       /\ AwaitsApproval(tasks[k])
       /\ lastOp' = Op("handleApprove", tasks[k].id, [userId |-> user.id])
       /\ callUpdateTask(tasks[k].id,
            [status |-> "approved", approvedBy |-> user.id, approvedAt |-> Date(now + 1)],
            now + 1)
  /\ now' = now + 1
  /\ UNCHANGED <<users, clients, taskTypes, chatMessages, lsUsers, horizon, scannedAt,
                 issued>>
  /\ UNCHANGED page

\* What the administrator answers to prompt(): nothing, or a text
PromptAnswers == {"", "Figures do not match"}

handleReject ==
  /\ ~effectPending
  /\ now < horizon
  /\ \E user \in {u \in Range(users) : isAdmin(u)} : \E k \in 1..Len(tasks) :
     \E reason \in PromptAnswers :
       /\ AwaitsApproval(tasks[k])
       /\ lastOp' = Op("handleReject", tasks[k].id, [userId |-> user.id, answer |-> reason])
       /\ IF reason # ""
            THEN callUpdateTask(tasks[k].id,
                   [status |-> "rejected", rejectedBy |-> user.id,
                    rejectedAt |-> Date(now + 1), rejectionReason |-> reason], now + 1)
            ELSE UNCHANGED <<tasks, notifications, effectPending>>
  /\ now' = now + 1
  /\ UNCHANGED <<users, clients, taskTypes, chatMessages, lsUsers, horizon, scannedAt,
                 issued>>
  /\ UNCHANGED page

handleRequestRevision ==
  /\ ~effectPending
  /\ now < horizon
  /\ \E user \in {u \in Range(users) : isAdmin(u)} : \E k \in 1..Len(tasks) :
     \E feedback \in PromptAnswers :
       /\ AwaitsApproval(tasks[k])
       /\ lastOp' = Op("handleRequestRevision", tasks[k].id,
                       [userId |-> user.id, answer |-> feedback])
       /\ IF feedback # ""
            THEN callUpdateTask(tasks[k].id,
                   [status |-> "in-progress", revisionRequested |-> TRUE,
                    revisionFeedback |-> feedback, reviewedBy |-> user.id,
                    reviewedAt |-> Date(now + 1)], now + 1)
            ELSE UNCHANGED <<tasks, notifications, effectPending>>
  /\ now' = now + 1
  /\ UNCHANGED <<users, clients, taskTypes, chatMessages, lsUsers, horizon, scannedAt,
                 issued>>
  /\ UNCHANGED page

(* --------------------------- NotificationBell --------------------------- *)

\* NotificationBell after its first render at time t: useState([]), useState(new Date())
NewBell(t) ==
  [lastCheck |-> Date(t), notifications |-> <<>>, changed |-> TRUE,
   tasks |-> <<>>, users |-> <<>>, user |-> NoUser]

\* The length the list of the bell is cut to.
BellCapacity == 50

\* status.replace('-', ' ').toUpperCase()
ToUpperCase(s) ==
  CASE s = "pending" -> "PENDING"
    [] s = "in progress" -> "IN PROGRESS"
    [] s = "completed" -> "COMPLETED"
    [] s = "approved" -> "APPROVED"
    [] s = "rejected" -> "REJECTED"
    [] OTHER -> s

\* userTasks of the bell: the tasks the user is assigned to
BellUserTasks(ts, user) ==
  SelectSeq(ts, LAMBDA task :
    \/ task.assignedToId = user.id
    \/ (Has(task, "assignedUsers") /\ user.id \in Range(task.assignedUsers)))

\* task.updatedById, NoId for undefined
UpdatedById(task) == IF Has(task, "updatedById") THEN task.updatedById ELSE NoId

\* new Date(task[k]) > lastCheck under task[k] &&
After(task, k, lastCheck) == Has(task, k) /\ DateValue(task[k]) > DateValue(lastCheck)

AssignedNotification(task, t) ==
  [id |-> <<"task_assigned", task.id, t>>, type |-> "task_assigned",
   title |-> "New Task Assigned",
   message |-> <<"You have been assigned to \"", task.title, "\" by ",
                 NameOf(users, task.assignedById, "Admin")>>,
   taskId |-> task.id, timestamp |-> task.createdAt, read |-> FALSE,
   fromUser |-> task.assignedById]

StatusNotification(task, t) ==
  [id |-> <<"task_status", task.id, t>>, type |-> "task_status_changed",
   title |-> "Task Status Updated",
   message |-> <<"\"", task.title, "\" status changed to ",
                 ToUpperCase(ReplaceHyphen(task.status)), " by ",
                 NameOf(users, UpdatedById(task), "Admin")>>,
   taskId |-> task.id, timestamp |-> task.updatedAt, read |-> FALSE,
   fromUser |-> UpdatedById(task)]

OverdueNotification(task, t) ==
  [id |-> <<"task_overdue", task.id, t>>, type |-> "task_overdue",
   title |-> "Task Overdue",
   message |-> <<"\"", task.title, "\" is overdue (Due: ", LocaleDate(task.dueDate), ")">>,
   taskId |-> task.id, timestamp |-> Date(t), read |-> FALSE]

CompletedNotification(task, t) ==
  [id |-> <<"task_completed", task.id, t>>, type |-> "task_completed",
   title |-> "Task Completed",
   message |-> <<"\"", task.title, "\" has been completed by ",
                 NameOf(users, UpdatedById(task), "User"), " and awaits approval">>,
   taskId |-> task.id, timestamp |-> task.updatedAt, read |-> FALSE,
   fromUser |-> UpdatedById(task)]

\* notifications.some(n => n.type === 'task_overdue' && n.taskId === task.id)
isOverdueNotificationExists(ns, task) ==
  \E i \in 1..Len(ns) : ns[i].type = "task_overdue" /\ ns[i].taskId = task.id

\* What one pass of userTasks.forEach pushes for a task
PushedFor(task, user, lastCheck, ns, t) ==
  (IF After(task, "createdAt", lastCheck) THEN <<AssignedNotification(task, t)>> ELSE <<>>)
  \o (IF After(task, "updatedAt", lastCheck) /\ UpdatedById(task) # user.id
        THEN <<StatusNotification(task, t)>> ELSE <<>>)
  \o (IF /\ DateValue(task.dueDate) < t
         /\ task.status # "completed"
         /\ task.status # "approved"
         /\ ~isOverdueNotificationExists(ns, task)
        THEN <<OverdueNotification(task, t)>> ELSE <<>>)
  \o (IF /\ task.status = "completed"
         /\ After(task, "updatedAt", lastCheck)
         /\ user.role = "admin"
        THEN <<CompletedNotification(task, t)>> ELSE <<>>)

\* newNotifications after userTasks.forEach from task k on
RECURSIVE NewNotificationsFrom(_, _, _, _, _, _)
NewNotificationsFrom(ts, k, user, lastCheck, ns, t) ==
  IF k > Len(ts) THEN <<>>
  ELSE PushedFor(ts[k], user, lastCheck, ns, t)
         \o NewNotificationsFrom(ts, k + 1, user, lastCheck, ns, t)

\* newNotifications of a run of the effect
newNotifications(b, user, t) ==
  IF user = NoUser THEN <<>>
  ELSE NewNotificationsFrom(BellUserTasks(tasks, user), 1, user, b.lastCheck,
                            b.notifications, t)

\* [...newNotifications, ...prev].slice(0, 50)
Kept(ns) == SubSeq(ns, 1, IF Len(ns) < BellCapacity THEN Len(ns) ELSE BellCapacity)

\* The effect of the bell is scheduled: one of tasks, user, users, lastCheck and
\* notifications was set since its last run
BellEffectPending ==
  \/ bell.changed
  \/ bell.tasks # tasks
  \/ bell.users # users
  \/ bell.user # session.user

\* useEffect(..., [tasks, user, users, lastCheck, notifications]) of the bell
bellEffect ==
  /\ BellEffectPending
  /\ LET new == newNotifications(bell, session.user, now)
     IN bell' = [bell EXCEPT
                   !.notifications = IF Len(new) > 0 THEN Kept(new \o @) ELSE @,
                   !.changed = (Len(new) > 0),
                   !.tasks = tasks, !.users = users, !.user = session.user]
  /\ UNCHANGED <<users, clients, taskTypes, tasks, chatMessages, notifications, lsUsers,
                 now, effectPending, horizon, lastOp, scannedAt, issued, usersAtLoad,
                 storage, session, chat, provider>>

\* markAllAsRead of the bell, offered while a notification is unread
markAllAsRead ==
  /\ ~BellEffectPending
  /\ ~effectPending
  /\ now < horizon
  /\ \E i \in 1..Len(bell.notifications) : ~bell.notifications[i].read
  /\ bell' = [bell EXCEPT
                !.notifications = [i \in 1..Len(@) |-> Merge(@[i], [read |-> TRUE])],
                !.lastCheck = Date(now + 1),
                !.changed = TRUE]
  /\ lastOp' = Op("markAllAsRead", NoId, <<>>)
  /\ now' = now + 1
  /\ UNCHANGED <<users, clients, taskTypes, tasks, chatMessages, notifications, lsUsers,
                 effectPending, horizon, scannedAt, issued, usersAtLoad, storage, session,
                 chat, provider>>

\* deleteNotification of the bell on one of the notifications shown
deleteNotification ==
  /\ ~BellEffectPending
  /\ ~effectPending
  /\ now < horizon
  /\ \E k \in 1..Len(bell.notifications) :
       /\ bell' = [bell EXCEPT
                     !.notifications =
                       SelectSeq(@, LAMBDA n : n.id # bell.notifications[k].id),
                     !.changed = TRUE]
       /\ lastOp' = Op("deleteNotification", bell.notifications[k].taskId, <<>>)
  /\ now' = now + 1
  /\ UNCHANGED <<users, clients, taskTypes, tasks, chatMessages, notifications, lsUsers,
                 effectPending, horizon, scannedAt, issued, usersAtLoad, storage, session,
                 chat, provider>>

(* ------------------------------ page load ------------------------------ *)

\* What a slot holds: nothing (getItem gives null), a text JSON.parse rejects, or a
\* JSON text, kept as the records it parses to
AbsentSlot == [kind |-> "absent", value |-> <<>>]

MalformedSlot == [kind |-> "malformed", value |-> <<>>]

JsonSlot(value) == [kind |-> "json", value |-> value]

\* JSON.parse(text) throws a SyntaxError
ParseThrows(text) == text.kind = "malformed"

\* initializeUsers on the text of the `users` slot: the users it returns and the array
\* the slot holds afterwards
initializeUsers(savedUsers) ==
  IF savedUsers.kind # "absent" /\ ~ParseThrows(savedUsers)
    THEN [value |-> savedUsers.value, slot |-> savedUsers.value]
    ELSE [value |-> defaultUsers, slot |-> JSONStringify(defaultUsers)]

\* sessionUser of login: the user's record without the password, as the slot keeps it
SessionUser(user) == StringifyRecord([k \in (DOMAIN user) \ {"password"} |-> user[k]])

\* The texts the `users` slot may hold when the page loads
UsersSlotContents ==
  { AbsentSlot, MalformedSlot, JsonSlot(JSONStringify(defaultUsers)),
    JsonSlot(JSONStringify(SubSeq(defaultUsers, 1, 2))) }

\* The texts the `currentUser` slot may hold when the page loads
CurrentUserSlotContents ==
  { AbsentSlot, MalformedSlot, JsonSlot(<<SessionUser(defaultUsers[1])>>),
    JsonSlot(<<SessionUser(defaultUsers[2])>>) }

\* The texts the `chat_1` slot may hold when the page loads
ChatSlotContents ==
  { AbsentSlot, MalformedSlot, JsonSlot(JSONStringify(SubSeq(defaultChatMessages, 1, 1))),
    JsonSlot(JSONStringify(SubSeq(defaultChatMessages, 1, 2))) }

\* No slot but `users` is written yet
FreshStorage ==
  [currentUser |-> AbsentSlot, chat |-> AbsentSlot, chatLastRead |-> AbsentSlot,
   taskMessages |-> AbsentSlot]

\* AuthProvider before its effect has run: useState(null), useState(false)
NoSession ==
  [mounted |-> FALSE, read |-> "nothing", user |-> NoUser, isAuthenticated |-> FALSE,
   threw |-> FALSE]

\* TaskChat before its load effect has run: useState([])
ClosedChat == [open |-> FALSE, read |-> "nothing", messages |-> <<>>, threw |-> FALSE]

\* The effect of the password-checking AuthProvider that restores the session
authEffect ==
  /\ ~session.mounted
  /\ LET savedUser == storage.currentUser IN
     IF savedUser.kind = "absent"
       THEN /\ session' = [session EXCEPT !.mounted = TRUE, !.read = "absent"]
            /\ UNCHANGED storage
       ELSE IF ParseThrows(savedUser)
         THEN /\ session' = [session EXCEPT !.mounted = TRUE, !.read = "malformed"]
              /\ storage' = [storage EXCEPT !.currentUser = AbsentSlot]
         ELSE /\ session' = [mounted |-> TRUE, read |-> "json",
                             user |-> savedUser.value[1], isAuthenticated |-> TRUE,
                             threw |-> FALSE]
              /\ UNCHANGED storage
  /\ UNCHANGED <<users, clients, taskTypes, tasks, chatMessages, notifications, lsUsers,
                 now, effectPending, horizon, lastOp, scannedAt, issued, usersAtLoad, chat, bell,
                 provider>>

\* localStorage.setItem(`chat_lastRead_${taskId}_${user.id}`, new Date().toISOString())
\* under if (user?.id)
MarkChatRead(st, user, t) ==
  IF user.id # NoId
    THEN [st EXCEPT !.chatLastRead =
            [kind |-> "text", value |-> <<[userId |-> user.id, at |-> <<"ISO", t>>]>>]]
    ELSE st

\* The effect of TaskChat that loads the messages of the task when the chat is opened;
\* an exception of JSON.parse leaves the effect, nothing in it catches it
chatLoadEffect ==
  /\ ~chat.open
  /\ LET savedMessages == storage.chat IN
     IF savedMessages.kind = "absent"
       THEN /\ chat' = [chat EXCEPT !.open = TRUE, !.read = "absent"]
            /\ storage' = MarkChatRead(storage, session.user, now)
       ELSE IF ParseThrows(savedMessages)
         THEN /\ chat' = [chat EXCEPT !.open = TRUE, !.read = "malformed", !.threw = TRUE]
              /\ UNCHANGED storage
         ELSE /\ chat' = [open |-> TRUE, read |-> "json",
                          messages |->
                            [i \in 1..Len(savedMessages.value) |->
                               Merge(savedMessages.value[i],
                                 [timestamp |->
                                    Date(DateValue(savedMessages.value[i].timestamp))])],
                          threw |-> FALSE]
              /\ storage' = MarkChatRead(storage, session.user, now)
  /\ UNCHANGED <<users, clients, taskTypes, tasks, chatMessages, notifications, lsUsers,
                 now, effectPending, horizon, lastOp, scannedAt, issued, usersAtLoad,
                 session, bell, provider>>

(* ----------------------- task numbers of any form ---------------------- *)

\* The task numbers a patch may carry: of the pattern, of other forms, and ''
TaskNumberPatches ==
  { <<"T", "9", "9", "8">>, <<"T", "9", "9", "9">>, <<"T", "0", "5", "0">>,
    <<"T", "0", "0", "6", "0">>, <<"T", "7", "0">>, <<"X", "0", "8", "0">>,
    <<"T", "9", "a", "9">>, <<>> }

\* updateTask(id, { taskNumber }): the store takes any Partial<Task> as a patch
updateTaskNumber ==
  /\ ~effectPending
  /\ now < horizon
  /\ \E k \in 1..Len(tasks) : \E num \in TaskNumberPatches :
       /\ lastOp' = Op("updateTask", tasks[k].id, [taskNumber |-> num])
       /\ callUpdateTask(tasks[k].id, [taskNumber |-> num], now + 1)
  /\ now' = now + 1
  /\ UNCHANGED <<users, clients, taskTypes, chatMessages, lsUsers, horizon, scannedAt,
                 issued>>
  /\ UNCHANGED page

(* ------------------------- bypass AuthProvider ------------------------- *)

\* The id 'guest-1' of the guest account
GuestId == 100

\* 'user-' + Math.random().toString(36).substring(2, 9): the ids a login may draw
RandomIds == {201, 202}

\* The e-mail addresses and passwords typed into the login form
LoginEmails == {"admin@ca.com", "john@ca.com", "nobody", "@ca.com", ""}

LoginPasswords == {"admin123", "wrong", ""}

\* email.split('@')[0] on the addresses the login form holds
LocalPart(email) ==
  CASE email = "admin@ca.com" -> "admin"
    [] email = "john@ca.com" -> "john"
    [] email = "jane@ca.com" -> "jane"
    [] email = "@ca.com" -> ""
    [] OTHER -> email

guestUser(t) ==
  [id |-> GuestId, name |-> "Guest User", email |-> "guest@demo.com", role |-> "admin",
   isActive |-> TRUE, createdAt |-> Date(t)]

fakeUser(id, email, t) ==
  [id |-> id,
   name |-> IF LocalPart(email) # "" THEN LocalPart(email) ELSE "Guest",
   email |-> IF email # "" THEN email ELSE "guest@demo.com",
   role |-> "admin", isActive |-> TRUE, createdAt |-> Date(t)]

\* The effect of the bypass AuthProvider: auto-login with the guest account
guestEffect ==
  /\ ~session.mounted
  /\ session' = [session EXCEPT !.mounted = TRUE, !.user = guestUser(now),
                                !.isAuthenticated = TRUE]
  /\ storage' = [storage EXCEPT !.currentUser = JsonSlot(<<StringifyRecord(guestUser(now))>>)]
  /\ UNCHANGED <<users, clients, taskTypes, tasks, chatMessages, notifications, lsUsers,
                 now, effectPending, horizon, lastOp, scannedAt, issued, usersAtLoad, chat, bell,
                 provider>>

\* login of the bypass AuthProvider; the value it returns is kept in lastOp
bypassLogin ==
  /\ session.mounted
  /\ ~effectPending
  /\ now < horizon
  /\ \E email \in LoginEmails : \E password \in LoginPasswords : \E id \in RandomIds :
       LET t == now + 1 IN
       /\ session' = [session EXCEPT !.user = fakeUser(id, email, t),
                                     !.isAuthenticated = TRUE]
       /\ storage' = [storage EXCEPT
                        !.currentUser = JsonSlot(<<StringifyRecord(fakeUser(id, email, t))>>)]
       /\ lastOp' = Op("login", id,
                       [email |-> email, password |-> password, returned |-> TRUE])
  /\ now' = now + 1
  /\ UNCHANGED <<users, clients, taskTypes, tasks, chatMessages, notifications, lsUsers,
                 effectPending, horizon, scannedAt, issued, usersAtLoad, chat, bell,
                 provider>>

\* Mutation of bypassLogout: the session is ended.
bypassLogout_EndsSession ==
  /\ session.mounted
  /\ ~effectPending
  /\ now < horizon
  /\ session' = [session EXCEPT !.user = NoUser, !.isAuthenticated = FALSE]
  /\ storage' = [storage EXCEPT !.currentUser = AbsentSlot]
  /\ lastOp' = Op("logout", NoId, <<>>)
  /\ now' = now + 1
  /\ UNCHANGED <<users, clients, taskTypes, tasks, chatMessages, notifications, lsUsers,
                 effectPending, horizon, scannedAt, issued, usersAtLoad, chat, bell,
                 provider>>

\* logout of the bypass AuthProvider: console.warn only
bypassLogout ==
  /\ session.mounted
  /\ ~effectPending
  /\ now < horizon
  /\ lastOp' = Op("logout", NoId, <<>>)
  /\ now' = now + 1
  /\ UNCHANGED <<users, clients, taskTypes, tasks, chatMessages, notifications, lsUsers,
                 effectPending, horizon, scannedAt, issued>>
  /\ UNCHANGED page

(* -------------------- password-checking AuthProvider -------------------- *)

\* The id 'admin-1' of the default administrator of login
AdminId == 101

defaultAdmin(t) ==
  [id |-> AdminId, name |-> "Admin User", email |-> "admin@ca.com", role |-> "admin",
   isActive |-> TRUE, phone |-> "+1-555-0101", department |-> "Management",
   createdAt |-> Date(t), password |-> "admin123"]

\* The demo credentials the login screen shows
DemoCredentials ==
  { [email |-> "admin@ca.com", password |-> "admin123"],
    [email |-> "john@ca.com", password |-> "john123"],
    [email |-> "jane@ca.com", password |-> "jane123"] }

\* email and password of the Login form as the visitor may have filled them in
LoginForms ==
  DemoCredentials \cup
    { [email |-> "new@ca.com", password |-> "new123"],
      [email |-> "Admin@CA.com", password |-> "wrong"] }

\* users of login: the array of the `users` slot, or the default administrator alone
LoginUsers(savedUsers, t) ==
  IF Len(savedUsers) = 0 THEN JSONStringify(<<defaultAdmin(t)>>) ELSE savedUsers

\* The predicate of users.find in login
Accepts(u, email, password) ==
  /\ ToLowerCase(u.email) = ToLowerCase(email)
  /\ u.password = password
  /\ Has(u, "isActive")
  /\ u.isActive = TRUE

\* login of the password-checking AuthProvider; the value it returns is kept in lastOp
login ==
  /\ session.mounted
  /\ ~effectPending
  /\ now < horizon
  /\ \E form \in LoginForms :
       LET us == LoginUsers(lsUsers, now + 1)
           found == { k \in 1..Len(us) : Accepts(us[k], form.email, form.password) }
           foundUser == us[CHOOSE k \in found : \A j \in found : k <= j]
       IN /\ lsUsers' = us
          /\ lastOp' = Op("login", NoId, Merge(form, [returned |-> (found # {})]))
          /\ IF found # {}
               THEN /\ session' = [session EXCEPT !.user = SessionUser(foundUser),
                                                  !.isAuthenticated = TRUE]
                    /\ storage' = [storage EXCEPT
                                     !.currentUser = JsonSlot(<<SessionUser(foundUser)>>)]
               ELSE UNCHANGED <<session, storage>>
  /\ now' = now + 1
  /\ UNCHANGED <<users, clients, taskTypes, tasks, chatMessages, notifications,
                 effectPending, horizon, scannedAt, issued, usersAtLoad, chat, bell,
                 provider>>

\* logout of the password-checking AuthProvider
logout ==
  /\ session.mounted
  /\ ~effectPending
  /\ now < horizon
  /\ session' = [session EXCEPT !.user = NoUser, !.isAuthenticated = FALSE]
  /\ storage' = [storage EXCEPT !.currentUser = AbsentSlot]
  /\ lastOp' = Op("logout", NoId, <<>>)
  /\ now' = now + 1
  /\ UNCHANGED <<users, clients, taskTypes, tasks, chatMessages, notifications, lsUsers,
                 effectPending, horizon, scannedAt, issued, usersAtLoad, chat, bell,
                 provider>>

(* ------------------------------ task chat ------------------------------ *)

\* newMessage of TaskChat as the user may have typed it: a text is the sequence of
\* its parts, a mention being one part
ChatTexts ==
  { <<>>, <<"  ">>, <<"Hello team">>, <<"@jane", " please review">>, <<"@nobody", " hi">> }

\* !newMessage.trim()
IsBlank(text) == \A i \in 1..Len(text) : Trim(text[i]) = ""

\* newMessage.match(/@(\w+)/g), over the parts the texts are made of
mentionMatches(text) == SelectSeq(text, LAMBDA part : part \in {"@jane", "@nobody"})

\* mention.slice(1)
Username(mention) == IF mention = "@jane" THEN "jane" ELSE "nobody"

\* s.toLowerCase().includes(username.toLowerCase()), over the names and e-mail
\* addresses of the users and the usernames of the texts
IncludesIgnoringCase(s, username) ==
  <<s, username>> \in { <<"Jane Smith", "jane">>, <<"jane@ca.com", "jane">> }

\* users.find(...)?.id of a mention, NoId for undefined
MentionedUserId(mention, us) ==
  LET hits == { k \in 1..Len(us) :
                  \/ IncludesIgnoringCase(us[k].name, Username(mention))
                  \/ IncludesIgnoringCase(us[k].email, Username(mention)) }
  IN IF hits = {} THEN NoId ELSE us[CHOOSE k \in hits : \A j \in hits : k <= j].id

\* mentionMatches?.map(...).filter(Boolean) || []
Mentions(text, us) ==
  SelectSeq([i \in 1..Len(mentionMatches(text)) |->
               MentionedUserId(mentionMatches(text)[i], us)],
            LAMBDA id : id # NoId)

\* Mutation of sendMessage: the message also goes to the store, as addChatMessage
\* would take it.
sendMessage_ThroughStore ==
  /\ session.mounted
  /\ chat.open
  /\ ~chat.threw
  /\ ~effectPending
  /\ now < horizon
  /\ \E newMessage \in ChatTexts :
       LET t == now + 1
           user == session.user
           sent == ~IsBlank(newMessage) /\ user # NoUser
           message == [id |-> t, taskId |-> 1, userId |-> user.id, message |-> newMessage,
                       mentions |-> Mentions(newMessage, users), timestamp |-> Date(t)]
           updatedMessages == Append(chat.messages, message)
       IN /\ lastOp' = Op("sendMessage", 1, [newMessage |-> newMessage, sent |-> sent])
          /\ IF sent
               THEN /\ storage' = [storage EXCEPT
                                     !.chat = JsonSlot(JSONStringify(updatedMessages))]
                    /\ chat' = [chat EXCEPT !.messages = updatedMessages]
                    /\ chatMessages' = Append(chatMessages, message)
               ELSE UNCHANGED <<storage, chat, chatMessages>>
  /\ now' = now + 1
  /\ UNCHANGED <<users, clients, taskTypes, tasks, notifications, lsUsers,
                 effectPending, horizon, scannedAt, issued, usersAtLoad, session,
                 bell, provider>>

\* sendMessage of the chat of task 1, with saveMessages
sendMessage ==
  /\ session.mounted
  /\ chat.open
  /\ ~chat.threw
  /\ ~effectPending
  /\ now < horizon
  /\ \E newMessage \in ChatTexts :
       LET t == now + 1
           user == session.user
           sent == ~IsBlank(newMessage) /\ user # NoUser
           message == [id |-> t, taskId |-> 1, userId |-> user.id, message |-> newMessage,
                       mentions |-> Mentions(newMessage, users), timestamp |-> Date(t)]
           updatedMessages == Append(chat.messages, message)
       IN /\ lastOp' = Op("sendMessage", 1, [newMessage |-> newMessage, sent |-> sent])
          /\ IF sent
               THEN /\ storage' = [storage EXCEPT
                                     !.chat = JsonSlot(JSONStringify(updatedMessages))]
                    /\ chat' = [chat EXCEPT !.messages = updatedMessages]
               ELSE UNCHANGED <<storage, chat>>
  /\ now' = now + 1
  /\ UNCHANGED <<users, clients, taskTypes, tasks, chatMessages, notifications, lsUsers,
                 effectPending, horizon, scannedAt, issued, usersAtLoad, session,
                 bell, provider>>

\* setShowChat(''): TaskChat is unmounted and its state is gone
closeChat ==
  /\ session.mounted
  /\ chat.open
  /\ ~chat.threw
  /\ ~effectPending
  /\ now < horizon
  /\ chat' = ClosedChat
  /\ lastOp' = Op("closeChat", 1, <<>>)
  /\ now' = now + 1
  /\ UNCHANGED <<users, clients, taskTypes, tasks, chatMessages, notifications, lsUsers,
                 effectPending, horizon, scannedAt, issued, usersAtLoad, storage,
                 session, bell, provider>>

(* ------------------------ readers of the chat -------------------------- *)

\* lastMessage of the Messages conversation of task 1: read from `task_messages_1`
conversationLastMessage(st) ==
  LET taskMessages == IF st.taskMessages.kind = "absent" THEN <<>> ELSE st.taskMessages.value
  IN IF Len(taskMessages) > 0 THEN taskMessages[Len(taskMessages)] ELSE Null

\* new Date(s) of a text that is no date
InvalidDate == <<"Invalid Date", 0>>

\* new Date('0'): a date long before every other one, or an Invalid Date, as the
\* engine parses it
ZeroDates == { <<"Date", -1>>, InvalidDate }

\* new Date(timestamp) > new Date(lastRead): false when either is an Invalid Date
LaterThan(timestamp, lastRead) ==
  /\ timestamp # InvalidDate
  /\ lastRead # InvalidDate
  /\ DateValue(timestamp) > DateValue(lastRead)

\* localStorage.getItem(`chat_lastRead_1_${userId}`) || '0', as a Date
lastReadTimestamp(st, userId, zeroDate) ==
  IF \E k \in 1..Len(st.chatLastRead.value) : st.chatLastRead.value[k].userId = userId
    THEN LET k == CHOOSE j \in 1..Len(st.chatLastRead.value) :
                    st.chatLastRead.value[j].userId = userId
         IN <<"Date", DateValue(st.chatLastRead.value[k].at)>>
    ELSE zeroDate

\* getUnreadMessageCount('1') of TaskManagement for the user userId
getUnreadMessageCount(st, userId, zeroDate) ==
  IF ParseThrows(st.chat) THEN 0
  ELSE LET taskMessages == IF st.chat.kind = "absent" THEN <<>> ELSE st.chat.value
       IN Cardinality({ k \in 1..Len(taskMessages) :
                          /\ taskMessages[k].userId # userId
                          /\ LaterThan(taskMessages[k].timestamp,
                                       lastReadTimestamp(st, userId, zeroDate)) })

(* ------------------- presentation layer: milestones -------------------- *)

\* taskTypes.find(tt => tt.id === task.taskTypeId)?.milestones || []
MilestonesOf(task) ==
  LET i == IndexOfId(taskTypes, task.taskTypeId)
  IN IF i # 0 /\ Has(taskTypes[i], "milestones") THEN taskTypes[i].milestones ELSE <<>>

\* task.milestoneProgress || []
ProgressOf(task) == IF Has(task, "milestoneProgress") THEN task.milestoneProgress ELSE <<>>

\* milestoneProgress.filter(progress => milestones.some(m => m.id === progress.milestoneId))
validProgress(task) ==
  SelectSeq(ProgressOf(task), LAMBDA progress : MilestoneExists(MilestonesOf(task), progress))

validCompletedCount(task) == Len(SelectSeq(validProgress(task), LAMBDA mp : mp.completed))

\* Math.round(num / den) for num >= 0, den > 0
MathRound(num, den) == (2 * num + den) \div (2 * den)

\* The percentage shown on the card of a task:
\* milestones.length > 0 ? Math.round((validCompletedCount / milestones.length) * 100) : 0
completionPercentage(task) ==
  IF Len(MilestonesOf(task)) > 0
    THEN MathRound(validCompletedCount(task) * 100, Len(MilestonesOf(task)))
    ELSE 0

\* validProgress.find(mp => mp.milestoneId === milestone.id)?.completed || false
isCompleted(task, milestoneId) ==
  \E k \in 1..Len(validProgress(task)) :
    /\ validProgress(task)[k].milestoneId = milestoneId
    /\ \A j \in 1..(k - 1) : validProgress(task)[j].milestoneId # milestoneId
    /\ validProgress(task)[k].completed

\* An entry of the progress set by a toggle: completedAt and completedById are
\* undefined when the milestone is not completed
ToggledEntry(entry, completed, userId, t) ==
  IF completed
    THEN Merge(entry, [completed |-> TRUE, completedAt |-> Date(t), completedById |-> userId])
    ELSE Merge([k \in (DOMAIN entry) \ {"completedAt", "completedById"} |-> entry[k]],
               [completed |-> FALSE])

\* Mutation of updatedProgress: the entry is always pushed.
updatedProgress_AlwaysPush(currentProgress, milestoneId, completed, userId, t) ==
  Append(currentProgress, ToggledEntry([milestoneId |-> milestoneId], completed, userId, t))

\* updatedProgress of handleMilestoneToggle
updatedProgress(currentProgress, milestoneId, completed, userId, t) ==
  IF \E k \in 1..Len(currentProgress) : currentProgress[k].milestoneId = milestoneId
    THEN LET existingIndex ==
               CHOOSE k \in 1..Len(currentProgress) :
                 /\ currentProgress[k].milestoneId = milestoneId
                 /\ \A j \in 1..(k - 1) : currentProgress[j].milestoneId # milestoneId
         IN [currentProgress EXCEPT
               ![existingIndex] = ToggledEntry(currentProgress[existingIndex], completed,
                                               userId, t)]
    ELSE Append(currentProgress,
                ToggledEntry([milestoneId |-> milestoneId], completed, userId, t))

\* A click on a milestone of a listed task by the session's user:
\* handleMilestoneToggle(task.id, milestone.id, !isCompleted)
handleMilestoneToggle ==
  /\ ~effectPending
  /\ now < horizon
  /\ \E user \in Range(users) : \E k \in 1..Len(tasks) :
     \E m \in 1..Len(MilestonesOf(tasks[k])) :
       LET task == tasks[k]
           t == now + 1
           milestoneId == MilestonesOf(task)[m].id
           completed == ~isCompleted(task, milestoneId)
       IN /\ InUserTasks(task, user)
          /\ canChangeStatus(task, user)
          /\ lastOp' = Op("handleMilestoneToggle", task.id,
                          [milestoneId |-> milestoneId, completed |-> completed,
                           userId |-> user.id])
          /\ callUpdateTask(task.id,
               [milestoneProgress |->
                  updatedProgress(ProgressOf(task), milestoneId, completed, user.id, t),
                updatedById |-> user.id, updatedAt |-> Date(t)], t)
  /\ now' = now + 1
  /\ UNCHANGED <<users, clients, taskTypes, chatMessages, lsUsers, horizon, scannedAt,
                 issued>>
  /\ UNCHANGED page

(* --------------------------- specifications ---------------------------- *)

\* The state after DataProvider's first render on a profile whose `users` slot holds
\* savedUsers.  The clock starts above every seeded id, as Date.now() does.
PageLoaded(savedUsers, events) ==
  /\ usersAtLoad = savedUsers
  /\ users = initializeUsers(savedUsers).value
  /\ clients = defaultClients
  /\ taskTypes = defaultTaskTypes
  /\ tasks = defaultTasks
  /\ chatMessages = defaultChatMessages
  /\ notifications = defaultNotifications
  /\ lsUsers = initializeUsers(savedUsers).slot
  /\ now = 10
  /\ effectPending = TRUE
  /\ horizon = 10 + events
  /\ lastOp = Op("mount", NoId, <<>>)
  /\ scannedAt = 0
  /\ issued = <<>>
  /\ bell = NewBell(10)
  /\ provider = NewProvider

\* The state after DataProvider's first render on a fresh browser profile.  The
\* handlers of the presentation layer take the user of the session as an input.
Mounted(events) ==
  /\ PageLoaded(AbsentSlot, events)
  /\ storage = FreshStorage
  /\ session = NoSession
  /\ chat = ClosedChat

Init == Mounted(MaxEventsAll)

\* Every operation of the store.
Next ==
  \/ overdueEffect
  \/ intervalFire
  \/ addUser
  \/ updateUser
  \/ deleteUser
  \/ addTask
  \/ updateTask
  \/ deleteTask
  \/ addClient
  \/ updateClient
  \/ deleteClient
  \/ addTaskType
  \/ updateTaskType
  \/ deleteTaskType
  \/ addChatMessage
  \/ addNotification
  \/ markNotificationAsRead
  \/ clearNotification
  \/ clearAllNotifications
  \/ markAllNotificationsAsRead

Spec == Init /\ [][Next]_vars

\* The task operations and the overdue scan.
InitTasks == Mounted(MaxEvents)

NextTasks ==
  \/ overdueEffect
  \/ intervalFire
  \/ addTask
  \/ updateTask
  \/ deleteTask

SpecTasks == InitTasks /\ [][NextTasks]_vars

\* The task types and the tasks that use them.
InitTypes == Mounted(MaxEvents)

NextTypes ==
  \/ overdueEffect
  \/ addTask
  \/ addTaskType
  \/ updateTaskType
  \/ deleteTaskType

SpecTypes == InitTypes /\ [][NextTypes]_vars

\* The forms of the presentation layer: user administration and task creation.
InitForms == Mounted(MaxEvents)

NextForms ==
  \/ overdueEffect
  \/ handleSubmit
  \/ handleDelete
  \/ handleCreateTask

SpecForms == InitForms /\ [][NextForms]_vars

\* The page loaded on a profile whose slots hold texts of any kind: the providers
\* and the chat of task 1 read them.
InitLoad ==
  /\ \E savedUsers \in UsersSlotContents : PageLoaded(savedUsers, 0)
  /\ storage \in [currentUser : CurrentUserSlotContents, chat : ChatSlotContents,
                  chatLastRead : {AbsentSlot}, taskMessages : {AbsentSlot}]
  /\ session = NoSession
  /\ chat = ClosedChat

NextLoad ==
  \/ overdueEffect
  \/ authEffect
  \/ chatLoadEffect

SpecLoad == InitLoad /\ [][NextLoad]_vars

\* The status actions of the presentation layer, and the user form that sets roles.
InitStatus == Mounted(MaxEvents)

NextStatus ==
  \/ overdueEffect
  \/ handleSubmit
  \/ handleStatusChange
  \/ handleApprove
  \/ handleReject
  \/ handleRequestRevision

SpecStatus == InitStatus /\ [][NextStatus]_vars

\* The task numbers: tasks are renumbered by patches and added.
InitNumbers == Mounted(MaxEvents)

NextNumbers ==
  \/ overdueEffect
  \/ updateTaskNumber
  \/ addTask

SpecNumbers == InitNumbers /\ [][NextNumbers]_vars

\* The bypass AuthProvider under login and logout calls.
InitBypass == Mounted(MaxEvents)

NextBypass ==
  \/ overdueEffect
  \/ guestEffect
  \/ bypassLogin
  \/ bypassLogout

SpecBypass == InitBypass /\ [][NextBypass]_vars

\* The password-checking AuthProvider beside the user administration, which writes
\* the `users` slot that login reads.
InitLogin == Mounted(MaxEvents)

NextLogin ==
  \/ overdueEffect
  \/ authEffect
  \/ login
  \/ logout
  \/ handleSubmit
  \/ handleDelete

SpecLogin == InitLogin /\ [][NextLogin]_vars

\* The chat of task 1, opened, written to and closed by the user of the session.
InitChat ==
  /\ PageLoaded(AbsentSlot, MaxEvents)
  /\ storage \in [currentUser : CurrentUserSlotContents \ {MalformedSlot},
                  chat : ChatSlotContents \ {MalformedSlot},
                  chatLastRead : {AbsentSlot}, taskMessages : {AbsentSlot}]
  /\ session = NoSession
  /\ chat = ClosedChat

NextChat ==
  \/ overdueEffect
  \/ authEffect
  \/ chatLoadEffect
  \/ sendMessage
  \/ closeChat

SpecChat == InitChat /\ [][NextChat]_vars

\* The milestones: toggled on the tasks, and changed on the task types.
InitMilestones == Mounted(MaxToggles)

NextMilestones ==
  \/ overdueEffect
  \/ handleMilestoneToggle
  \/ updateTaskType

SpecMilestones == InitMilestones /\ [][NextMilestones]_vars

\* The timers of the overdue effect: the effect re-runs after the operations that
\* set tasks or notifications, its timer fires, and DataProvider is unmounted, after
\* which no operation is called.
InitTimers == Mounted(MaxEvents)

NextTimers ==
  \/ overdueEffect
  \/ intervalFire
  \/ (provider.mounted /\ addTask)
  \/ (provider.mounted /\ clearAllNotifications)
  \/ unmount

SpecTimers == InitTimers /\ [][NextTimers]_vars

\* The bell of the user whose session is restored, while tasks are added.  The effects
\* are run whenever they are scheduled (React runs them after every render), and an
\* event is taken only when no effect of the bell is scheduled.
InitBell ==
  /\ PageLoaded(AbsentSlot, MaxEvents)
  /\ storage \in [currentUser : CurrentUserSlotContents \ {MalformedSlot},
                  chat : {AbsentSlot}, chatLastRead : {AbsentSlot},
                  taskMessages : {AbsentSlot}]
  /\ session = NoSession
  /\ chat = ClosedChat

NextBell ==
  \/ overdueEffect
  \/ authEffect
  \/ bellEffect
  \/ (~BellEffectPending /\ addTask)
  \/ markAllAsRead
  \/ deleteNotification

SpecBell ==
  /\ InitBell
  /\ [][NextBell]_vars
  /\ WF_vars(overdueEffect)
  /\ WF_vars(authEffect)
  /\ WF_vars(bellEffect)

(* ------------------------------- claims -------------------------------- *)

\* The step just taken is a call of the operation named op.
Called(op) == now' # now /\ lastOp'.op = op

Suffix(taskNumber) == ParseInt(Tail(taskNumber))

\* C1: every task number addTask assigns is 'T' and three digits, is greater by its
\* numeric suffix than every number assigned before it, and so is never a number
\* already assigned to another task, whatever deleteTask calls come between.
C1_TaskNumbersIncrease ==
  /\ \A i \in 1..Len(issued) : MatchesTaskNumber(issued[i])
  /\ \A i, j \in 1..Len(issued) : i < j => Suffix(issued[i]) < Suffix(issued[j])

\* C2: after updateTaskType(id, {milestones: M}) on an existing task type, every task
\* of that type holds milestone progress only for milestones of M.
C2_ProgressFollowsMilestones ==
  ( /\ lastOp.op = "updateTaskType"
    /\ Has(lastOp.arg, "milestones")
    /\ IndexOfId(taskTypes, lastOp.id) # 0 )
  => \A i \in 1..Len(tasks) :
       tasks[i].taskTypeId = lastOp.id =>
         /\ Has(tasks[i], "milestoneProgress")
         /\ \A k \in 1..Len(tasks[i].milestoneProgress) :
              \E m \in 1..Len(lastOp.arg.milestones) :
                lastOp.arg.milestones[m].id = tasks[i].milestoneProgress[k].milestoneId

\* C2 witness: the update has dropped the progress of a removed milestone (4) and kept
\* that of a retained one (1).
C2_Witness ==
  /\ lastOp.op = "updateTaskType"
  /\ Has(lastOp.arg, "milestones")
  /\ \E i \in 1..Len(tasks) :
       /\ tasks[i].taskTypeId = lastOp.id
       /\ Has(tasks[i], "milestoneProgress")
       /\ Len(tasks[i].milestoneProgress) = 1
       /\ tasks[i].milestoneProgress[1].milestoneId = 1

OverdueNotificationsOf(task) ==
  { k \in 1..Len(notifications) :
      /\ Has(notifications[k], "taskId")
      /\ notifications[k].taskId = task.id
      /\ notifications[k].title = <<"Task overdue">>
      /\ notifications[k].userId = task.assignedToId }

\* C3: once the overdue scan has run, every overdue task (due date in the past, status
\* neither completed nor approved) has exactly one 'Task overdue' notification for its
\* current assignedToId.
C3_OneOverduePerRecipient ==
  (~effectPending /\ scannedAt = now) =>
    \A i \in 1..Len(tasks) :
      (IsOverdue(tasks[i], now) /\ tasks[i].assignedToId # NoId) =>
        Cardinality(OverdueNotificationsOf(tasks[i])) = 1

\* C4: addTask with assignedToId = B appends exactly two notifications, 'New task
\* created' and 'Task assigned to you', both for B, for the new task and with its
\* priority.
C4_AddTaskNotifiesAssignee ==
  [][ (Called("addTask") /\ lastOp'.arg.assignedToId # NoId) =>
        LET n == Len(notifications)
            newTask == tasks'[Len(tasks')]
        IN /\ Len(notifications') = n + 2
           /\ SubSeq(notifications', 1, n) = notifications
           /\ notifications'[n + 1].title = <<"New task created">>
           /\ notifications'[n + 2].title = <<"Task assigned to you">>
           /\ \A k \in {n + 1, n + 2} :
                /\ notifications'[k].userId = lastOp'.arg.assignedToId
                /\ notifications'[k].taskId = newTask.id
                /\ notifications'[k].priority = lastOp'.arg.priority ]_vars

\* C4 witness: addTask for user 3 has just appended the two notifications.
C4_Witness ==
  /\ lastOp.op = "addTask"
  /\ lastOp.arg.assignedToId = 3
  /\ effectPending
  /\ Len(notifications) >= 2
  /\ notifications[Len(notifications) - 1].title = <<"New task created">>
  /\ notifications[Len(notifications)].title = <<"Task assigned to you">>
  /\ notifications[Len(notifications)].userId = 3
  /\ notifications[Len(notifications)].taskId = tasks[Len(tasks)].id

\* C5: markAllNotificationsAsRead(userId) marks every notification of userId read,
\* leaves every other notification and the order as they were, and a second call in
\* succession changes nothing.
C5_MarkAllReadIdempotent ==
  [][ Called("markAllNotificationsAsRead") =>
        LET userId == lastOp'.id IN
        /\ Len(notifications') = Len(notifications)
        /\ \A k \in 1..Len(notifications) :
             IF notifications[k].userId = userId
               THEN /\ notifications'[k].isRead = TRUE
                    /\ notifications'[k] = Merge(notifications[k], [isRead |-> TRUE])
               ELSE notifications'[k] = notifications[k]
        /\ MarkAllRead(notifications', userId) = notifications' ]_vars

\* C5 witness: the call has marked an unread notification of user 3 while another
\* user's notification stays unread.
C5_Witness ==
  /\ lastOp.op = "markAllNotificationsAsRead"
  /\ lastOp.id = 3
  /\ effectPending
  /\ \E k \in 1..Len(notifications) :
       notifications[k].userId = 3 /\ notifications[k].isRead
  /\ \E k \in 1..Len(notifications) :
       notifications[k].userId # 3 /\ ~notifications[k].isRead

\* C6: after updateUser on an existing user the record's isActive is (status =
\* 'active'), and the record in the `users` slot has the same status and isActive.
C6_IsActiveFollowsStatus ==
  lastOp.op = "updateUser" =>
    /\ Len(lsUsers) = Len(users)
    /\ \A i \in 1..Len(users) :
         users[i].id = lastOp.id =>
           /\ Has(users[i], "isActive")
           /\ users[i].isActive = (users[i].status = "active")
           /\ (Has(lastOp.arg, "status") /\ lastOp.arg.status = "inactive")
                => users[i].isActive = FALSE
           /\ lsUsers[i].id = users[i].id
           /\ lsUsers[i].status = users[i].status
           /\ lsUsers[i].isActive = users[i].isActive

\* C6 witness: updateUser(id, {status: 'inactive'}) has made an active user inactive.
C6_Witness ==
  /\ lastOp.op = "updateUser"
  /\ lastOp.arg = [status |-> "inactive"]
  /\ \E i \in 1..Len(users) :
       /\ users[i].id = lastOp.id
       /\ users[i].status = "inactive"
       /\ users[i].isActive = FALSE
       /\ lsUsers[i].isActive = FALSE

\* The collection an update or delete operation looks its id up in.
CollectionOf(op) ==
  CASE op \in {"updateTask", "deleteTask"} -> tasks
    [] op \in {"updateTaskType", "deleteTaskType"} -> taskTypes
    [] op \in {"updateUser", "deleteUser"} -> users
    [] op \in {"updateClient", "deleteClient"} -> clients

\* C7: an update or delete called with an id its collection does not hold leaves every
\* collection as it was and appends no notification.
C7_AbsentIdChangesNothing ==
  [][ ( /\ now' # now
        /\ lastOp'.op \in {"updateTask", "deleteTask", "updateTaskType", "deleteTaskType",
                           "updateUser", "deleteUser", "updateClient", "deleteClient"}
        /\ IndexOfId(CollectionOf(lastOp'.op), lastOp'.id) = 0 )
      => UNCHANGED collections ]_vars

\* C7 witness: updateTaskType with a milestone list was called for a deleted task type
\* that a task still refers to.
C7_Witness ==
  /\ lastOp.op = "updateTaskType"
  /\ Has(lastOp.arg, "milestones")
  /\ IndexOfId(taskTypes, lastOp.id) = 0
  /\ \E i \in 1..Len(tasks) : tasks[i].taskTypeId = lastOp.id

\* The status as an activity-log entry names it.
Shown(status) ==
  CASE status = "pending" -> "pending"
    [] status = "in-progress" -> "in progress"
    [] status = "completed" -> "completed"
    [] status = "approved" -> "approved"
    [] status = "rejected" -> "rejected"

\* C8: updateTask on an existing task appends one activity-log entry, naming the prior
\* and the new status, when the patch has a status other than the task's, and none
\* otherwise; the entries before it stay as they were.
C8_ActivityLogOnStatusChange ==
  [][ (Called("updateTask") /\ IndexOfId(tasks, lastOp'.id) # 0) =>
        LET i == IndexOfId(tasks, lastOp'.id)
            before == tasks[i].activityLog
            after == tasks'[i].activityLog
            updates == lastOp'.arg
        IN IF Has(updates, "status") /\ updates.status # tasks[i].status
             THEN /\ Len(after) = Len(before) + 1
                  /\ SubSeq(after, 1, Len(before)) = before
                  /\ after[Len(after)].action =
                       <<"Status changed from ", Shown(tasks[i].status), " to ",
                         Shown(updates.status)>>
             ELSE after = before ]_vars

\* C8 witness: updateTask has moved a task from in-progress to another status and its
\* log ends with the entry of this call.
C8_Witness ==
  /\ lastOp.op = "updateTask"
  /\ Has(lastOp.arg, "status")
  /\ \E i \in 1..Len(tasks) :
       /\ tasks[i].id = lastOp.id
       /\ tasks[i].status = lastOp.arg.status
       /\ Len(tasks[i].activityLog) >= 2
       /\ tasks[i].activityLog[Len(tasks[i].activityLog)].id = now
       /\ tasks[i].activityLog[Len(tasks[i].activityLog)].action[2] = "in progress"

\* C9: updateTask emits a status notification exactly when the patch changes the
\* status: 'Task completed' to assignedById when the new status is completed, else
\* 'Task updated' to assignedToId, with the task's priority; none when the status
\* stays the same or the patch has none.
C9_NotificationOnStatusChange ==
  [][ (Called("updateTask") /\ IndexOfId(tasks, lastOp'.id) # 0) =>
        LET i == IndexOfId(tasks, lastOp'.id)
            n == Len(notifications)
            updates == lastOp'.arg
        IN IF Has(updates, "status") /\ updates.status # tasks[i].status
             THEN /\ Len(notifications') = n + 1
                  /\ SubSeq(notifications', 1, n) = notifications
                  /\ notifications'[n + 1].priority = tasks'[i].priority
                  /\ notifications'[n + 1].taskId = tasks[i].id
                  /\ IF updates.status = "completed"
                       THEN /\ notifications'[n + 1].title = <<"Task completed">>
                            /\ notifications'[n + 1].userId = tasks'[i].assignedById
                       ELSE /\ notifications'[n + 1].title = <<"Task updated">>
                            /\ notifications'[n + 1].userId = tasks'[i].assignedToId
             ELSE notifications' = notifications ]_vars

\* The participants of a task other than the sender of a message.
Recipients(task, senderId) == {task.assignedToId, task.assignedById} \ {senderId, NoId}

\* C10: addChatMessage on an existing task appends one 'New message in <title>'
\* notification for each participant (assignedToId, assignedById) other than the
\* sender, none for the sender, each participant receiving exactly one, whose body is
\* the sender's name and the first 50 characters, with '...' when the message is longer.
C10_OneMessageNotificationEach ==
  [][ (Called("addChatMessage") /\ IndexOfId(tasks, lastOp'.arg.taskId) # 0) =>
        LET task == tasks[IndexOfId(tasks, lastOp'.arg.taskId)]
            n == Len(notifications)
            text == lastOp'.arg.message
            added == (n + 1)..Len(notifications')
        IN /\ SubSeq(notifications', 1, n) = notifications
           /\ \A k \in added :
                /\ notifications'[k].title = <<"New message in ", task.title>>
                /\ notifications'[k].userId \in Recipients(task, lastOp'.arg.userId)
                /\ notifications'[k].message =
                     <<NameOf(users, lastOp'.arg.userId, "Unknown User"), ": ">>
                     \o SubSeq(text, 1, IF Len(text) < 50 THEN Len(text) ELSE 50)
                     \o (IF Len(text) > 50 THEN <<"...">> ELSE <<>>)
           /\ \A u \in Recipients(task, lastOp'.arg.userId) :
                Cardinality({k \in added : notifications'[k].userId = u}) = 1 ]_vars

\* The users assigned, as primary or additional assignee, to a task of the task type.
AssignedTo(ts, taskTypeId) ==
  { u \in UNION { {ts[i].assignedToId}
                  \cup (IF Has(ts[i], "assignedUsers") THEN Range(ts[i].assignedUsers) ELSE {})
                  : i \in {j \in 1..Len(ts) : ts[j].taskTypeId = taskTypeId} } : u # NoId }

IdsDistinct(s) == \A i, j \in 1..Len(s) : i # j => s[i].id # s[j].id

\* C12: in every reachable state no two records of one collection share an id,
\* the notifications emitted within one addTask call included.
C12_IdsUnique ==
  /\ IdsDistinct(users)
  /\ IdsDistinct(clients)
  /\ IdsDistinct(taskTypes)
  /\ IdsDistinct(tasks)
  /\ IdsDistinct(chatMessages)
  /\ IdsDistinct(notifications)

\* The persisted slots.
slots == <<lsUsers, storage>>

\* A user form that handleSubmit must refuse: no name, no e-mail, no password for a
\* new user, or the e-mail of another user in any letter case.
InvalidUserForm(formData, editingId) ==
  \/ Trim(formData.name) = "" \/ Trim(formData.email) = ""
  \/ (editingId = NoId /\ Trim(formData.password) = "")
  \/ \E i \in 1..Len(users) :
       /\ users[i].id # editingId
       /\ ToLowerCase(users[i].email) = ToLowerCase(formData.email)

\* A task form that handleCreateTask must refuse.
InvalidTaskForm(formData) ==
  \/ Trim(formData.title) = "" \/ formData.assignedToId = NoId
  \/ formData.clientId = NoId \/ formData.dueDate = NoDate

\* C15: a form submission that fails validation (handleSubmit, handleCreateTask) is
\* rejected before any mutation: every collection and every persisted slot stays as
\* it was.
C15_RejectedFormChangesNothing ==
  [][ ( \/ Called("handleSubmit") /\ InvalidUserForm(lastOp'.arg, lastOp'.id)
        \/ Called("handleCreateTask") /\ InvalidTaskForm(lastOp'.arg) )
      => UNCHANGED <<collections, slots>> ]_vars

\* C15 witness: an e-mail that differs from an existing user's only in letter case was
\* refused after a user had been added.
C15_Witness ==
  /\ lastOp.op = "handleSubmit"
  /\ lastOp.id = NoId
  /\ lastOp.arg.email = "NEW@ca.com"
  /\ Len(users) = 4
  /\ users[4].email = "new@ca.com"

\* No two records of s have the same e-mail address, letter case apart.
EmailsDistinct(s) ==
  \A i, j \in 1..Len(s) : i # j => ToLowerCase(s[i].email) # ToLowerCase(s[j].email)

\* C16: whatever additions and edits handleSubmit has taken, no two user records have
\* the same e-mail address compared case-insensitively, in the in-memory users
\* collection and in the persisted `users` slot.
C16_EmailsUnique ==
  /\ EmailsDistinct(users)
  /\ EmailsDistinct(lsUsers)

\* C17: after every add, edit or delete through UserManagement the persisted `users`
\* slot holds the records of the in-memory users collection: as many, with the same ids.
C17_SlotHoldsUsers ==
  [][ (Called("handleSubmit") \/ Called("handleDelete")) =>
        /\ Len(lsUsers') = Len(users')
        /\ \A i \in 1..Len(users') : lsUsers'[i].id = users'[i].id ]_vars

\* The status actions of the presentation layer.
StatusActions == {"handleStatusChange", "handleApprove", "handleReject",
                  "handleRequestRevision"}

\* pending -> in-progress -> completed -> {approved | rejected}, rejected -> pending
LifecycleEdges ==
  { <<"pending", "in-progress">>, <<"in-progress", "completed">>,
    <<"completed", "approved">>, <<"completed", "rejected">>, <<"rejected", "pending">> }

\* The step is a status action that moves statuses only along the edges, completes a
\* task only on an accepted confirmation, and changes no task on a declined one.
MovesAlong(edges) ==
  (now' # now /\ lastOp'.op \in StatusActions) =>
    /\ Len(tasks') = Len(tasks)
    /\ \A k \in 1..Len(tasks) :
         \/ tasks'[k].status = tasks[k].status
         \/ /\ <<tasks[k].status, tasks'[k].status>> \in edges
            /\ tasks'[k].status = "completed" =>
                 (lastOp'.op = "handleStatusChange" /\ lastOp'.arg.confirmed)
    /\ (lastOp'.op = "handleStatusChange" /\ ~lastOp'.arg.confirmed) => tasks' = tasks

\* C13, as stated: through the status actions (Start, Complete, Restart, Approve,
\* Reject, Revise) a status only moves along pending -> in-progress, in-progress ->
\* completed, completed -> approved, completed -> rejected and rejected -> pending,
\* to completed only after an accepted confirmation.
C13_LifecycleEdgesOnly == [][ MovesAlong(LifecycleEdges) ]_vars

\* C13, amended: the edges are those five and completed -> in-progress, which Revise
\* takes; to completed only after an accepted confirmation, and a declined
\* confirmation changes no task.
C13_LifecycleEdgesAndRevise ==
  [][ MovesAlong(LifecycleEdges \cup { <<"completed", "in-progress">> }) ]_vars

\* C13 witness: Revise has sent a completed task back to in-progress.
C13_Witness ==
  /\ lastOp.op = "handleRequestRevision"
  /\ lastOp.arg.answer # ""
  /\ \E k \in 1..Len(tasks) :
       /\ tasks[k].id = lastOp.id
       /\ tasks[k].status = "in-progress"
       /\ Has(tasks[k], "revisionRequested")
       /\ tasks[k].activityLog[Len(tasks[k].activityLog)].action[2] = "completed"

\* C14: a status action (handleStatusChange behind canChangeStatus) by a user who is
\* not an administrator changes no status of a task that is completed or approved,
\* and none of a task the user is neither the assignedToId nor an assignedUsers
\* member of.
C14_NonAdminStatusGuard ==
  [][ (Called("handleStatusChange") /\ lastOp'.arg.role # "admin") =>
        /\ Len(tasks') = Len(tasks)
        /\ \A k \in 1..Len(tasks) :
             ( \/ tasks[k].status \in {"completed", "approved"}
               \/ /\ tasks[k].assignedToId # lastOp'.arg.userId
                  /\ ~(Has(tasks[k], "assignedUsers")
                       /\ lastOp'.arg.userId \in Range(tasks[k].assignedUsers)) )
             => tasks'[k].status = tasks[k].status ]_vars

\* C14 witness: an assignee who is no administrator has just changed the status of a
\* task of their own, while a former administrator, now a plain user, is listed a
\* pending task they assigned without being an assignee of it.
C14_Witness ==
  /\ lastOp.op = "handleStatusChange"
  /\ lastOp.arg.role = "user"
  /\ \E k \in 1..Len(tasks) :
       /\ tasks[k].id = lastOp.id
       /\ tasks[k].status = lastOp.arg.newStatus
       /\ tasks[k].assignedToId = lastOp.arg.userId
  /\ \E i \in 1..Len(users) : \E k \in 1..Len(tasks) :
       /\ users[i].role = "user"
       /\ tasks[k].assignedById = users[i].id
       /\ tasks[k].assignedToId # users[i].id
       /\ tasks[k].status = "pending"

\* C18: when a slot read on load (`users` by DataProvider, `currentUser` by
\* AuthProvider, `chat_<taskId>` by TaskChat) holds a text that is no JSON, loading
\* ends without an exception and with the default or empty value: the three default
\* users, no session user, no messages.
C18_MalformedSlotFallsBack ==
  /\ usersAtLoad.kind = "malformed" => users = defaultUsers
  /\ (session.mounted /\ session.read = "malformed") =>
       (~session.threw /\ session.user = NoUser /\ ~session.isAuthenticated)
  /\ (chat.open /\ chat.read = "malformed") => (~chat.threw /\ chat.messages = <<>>)

\* The records of s at the positions of keep, in their order, from position k on.
RECURSIVE KeptFrom(_, _, _)
KeptFrom(s, keep, k) ==
  IF k > Len(s) THEN <<>>
  ELSE (IF k \in keep THEN <<s[k]>> ELSE <<>>) \o KeptFrom(s, keep, k + 1)

\* C19: no step changes a field of an existing notification other than setting isRead
\* to true, which only markNotificationAsRead and markAllNotificationsAsRead do;
\* otherwise notifications are appended, or removed by clearNotification and
\* clearAllNotifications; isRead never returns from true to false.
C19_NotificationsOnlyReadOrCleared ==
  [][ LET n == Len(notifications) IN
      \/ /\ Len(notifications') >= n
         /\ SubSeq(notifications', 1, n) = notifications
      \/ /\ lastOp'.op \in {"markNotificationAsRead", "markAllNotificationsAsRead"}
         /\ Len(notifications') = n
         /\ \A k \in 1..n :
              \/ notifications'[k] = notifications[k]
              \/ notifications'[k] = Merge(notifications[k], [isRead |-> TRUE])
      \/ /\ lastOp'.op \in {"clearNotification", "clearAllNotifications"}
         /\ \E keep \in SUBSET (1..n) : notifications' = KeptFrom(notifications, keep, 1)
    ]_vars

\* C19 witness: markNotificationAsRead has set isRead of the first seeded notification
\* and left its other fields and the other notifications as they were.
C19_Witness ==
  /\ lastOp.op = "markNotificationAsRead"
  /\ lastOp.id = 1
  /\ Len(notifications) = Len(defaultNotifications)
  /\ notifications[1] = Merge(defaultNotifications[1], [isRead |-> TRUE])
  /\ \A k \in 2..Len(notifications) : notifications[k] = defaultNotifications[k]

\* C20: deleteUser, deleteClient and deleteTaskType leave the tasks collection as it
\* was: no task is removed or modified, and the references of tasks to the deleted id
\* stay.
C20_DeletesLeaveTasks ==
  [][ (now' # now /\ lastOp'.op \in {"deleteUser", "deleteClient", "deleteTaskType"})
      => tasks' = tasks ]_vars

\* C20 witness: a user, a client or a task type that a task refers to has been deleted
\* and the task still refers to it.
C20_Witness ==
  /\ lastOp.op \in {"deleteUser", "deleteClient", "deleteTaskType"}
  /\ IndexOfId(CollectionOf(lastOp.op), lastOp.id) = 0
  /\ \E k \in 1..Len(tasks) :
       \/ lastOp.op = "deleteUser" /\ tasks[k].assignedToId = lastOp.id
                                   /\ lastOp.id \in Range(tasks[k].assignedUsers)
       \/ lastOp.op = "deleteClient" /\ tasks[k].clientId = lastOp.id
       \/ lastOp.op = "deleteTaskType" /\ tasks[k].taskTypeId = lastOp.id

\* The numeric suffixes of the task numbers that are 'T' and exactly three digits.
SuffixesOfPattern(ts) ==
  { 100 * (d1 - 1) + 10 * (d2 - 1) + (d3 - 1) : <<d1, d2, d3>> \in
      { d \in (1..10) \X (1..10) \X (1..10) :
          \E k \in 1..Len(ts) :
            /\ Has(ts[k], "taskNumber")
            /\ ts[k].taskNumber = <<"T", Digits[d[1]], Digits[d[2]], Digits[d[3]]>> } }

\* n in decimal, zero-padded to three digits
ZeroPadded3(n) ==
  IF n < 1000
    THEN <<Digits[(n \div 100) + 1], Digits[((n \div 10) % 10) + 1], Digits[(n % 10) + 1]>>
    ELSE <<Digits[(n \div 1000) + 1], Digits[((n \div 100) % 10) + 1],
           Digits[((n \div 10) % 10) + 1], Digits[(n % 10) + 1]>>

\* C22: the number addTask gets from generateTaskNumber is 'T' and m + 1 zero-padded
\* to three digits, m being the greatest suffix among the existing task numbers that
\* are 'T' and exactly three digits (0 when there is none); other task numbers and
\* missing ones are ignored.
C22_NextTaskNumber ==
  [][ Called("addTask") =>
        LET S == SuffixesOfPattern(tasks)
            m == IF S = {} THEN 0 ELSE Max(S)
        IN tasks'[Len(tasks')].taskNumber = <<"T">> \o ZeroPadded3(m + 1) ]_vars

\* C22 witness: a task was numbered T051 while the others held an empty number and
\* numbers off the pattern with greater numerals.
C22_Witness ==
  /\ lastOp.op = "addTask"
  /\ tasks[Len(tasks)].taskNumber = <<"T", "0", "5", "1">>
  /\ \E k \in 1..Len(tasks) : tasks[k].taskNumber = <<"T", "0", "0", "6", "0">>

\* C28: whenever the overdue scan is quiescent (it has run on the present tasks and
\* notifications and emitted nothing more), every overdue task with a non-empty
\* assignedToId has at least one 'Task overdue' notification in the collection, also
\* after clearNotification or clearAllNotifications removed the one it had.
C28_OverdueNotifiedWhenQuiescent ==
  (~effectPending /\ scannedAt = now) =>
    \A i \in 1..Len(tasks) :
      (IsOverdue(tasks[i], now) /\ tasks[i].assignedToId # NoId) =>
        \E k \in 1..Len(notifications) :
          /\ Has(notifications[k], "taskId")
          /\ notifications[k].taskId = tasks[i].id
          /\ notifications[k].title = <<"Task overdue">>

\* C28 witness: the seeded overdue notification of task 1 was cleared, and the scan
\* that followed has emitted it again and come to rest.
C28_Witness ==
  /\ lastOp.op \in {"clearNotification", "clearAllNotifications"}
  /\ ~effectPending
  /\ scannedAt = now
  /\ \A k \in 1..Len(notifications) : notifications[k].id # 1
  /\ \E k \in 1..Len(notifications) :
       /\ notifications[k].title = <<"Task overdue">>
       /\ notifications[k].taskId = 1
       /\ notifications[k].id = now

\* C28 as stated, the scan being quiescent whenever no run of it is pending: every
\* overdue task with a non-empty assignedToId has a 'Task overdue' notification.
C28_OverdueNotifiedWhenIdle ==
  ~effectPending =>
    \A i \in 1..Len(tasks) :
      (IsOverdue(tasks[i], now) /\ tasks[i].assignedToId # NoId) =>
        \E k \in 1..Len(notifications) :
          /\ Has(notifications[k], "taskId")
          /\ notifications[k].taskId = tasks[i].id
          /\ notifications[k].title = <<"Task overdue">>

\* C29: in the bypass AuthProvider, once mounted, the session is authenticated as an
\* administrator after every step; login returns true for every e-mail address and
\* password and sets a user of role admin; logout leaves user, isAuthenticated and
\* the `currentUser` slot unchanged.
C29_BypassAlwaysAdmin ==
  [][ /\ session'.mounted =>
           /\ session'.isAuthenticated
           /\ Has(session'.user, "role")
           /\ session'.user.role = "admin"
           /\ storage'.currentUser = JsonSlot(<<StringifyRecord(session'.user)>>)
      /\ Called("login") =>
           /\ lastOp'.arg.returned = TRUE
           /\ session'.user.id = lastOp'.id
           /\ session'.user.role = "admin"
      /\ Called("logout") =>
           /\ session' = session
           /\ storage' = storage ]_vars

\* C29 witness: logout was called after a login with an empty address and a wrong
\* password, and the user that login set is still the administrator of the session.
C29_Witness ==
  /\ lastOp.op = "logout"
  /\ session.isAuthenticated
  /\ session.user.id \in RandomIds
  /\ session.user.email = "guest@demo.com"
  /\ session.user.name = "Guest"
  /\ session.user.role = "admin"

\* C25: while the `users` slot holds the default users DataProvider seeded, the
\* password-checking login returns true for each demo credential of the login screen
\* and leaves isAuthenticated = true.
C25_DemoCredentialsAccepted ==
  [][ ( /\ Called("login")
        /\ lsUsers = JSONStringify(defaultUsers)
        /\ [email |-> lastOp'.arg.email, password |-> lastOp'.arg.password]
             \in DemoCredentials )
      => /\ lastOp'.arg.returned = TRUE
         /\ session'.isAuthenticated ]_vars

\* The users that handleSubmit created, as the store holds them
CreatedUsers == { u \in Range(users) : u.id \notin Range([i \in 1..Len(defaultUsers) |-> defaultUsers[i].id]) }

\* C26: for every user handleSubmit created with status 'active', the `users` slot
\* holds a record with the user's e-mail address and password whose isActive is true,
\* after the creation and after every later add, edit or delete of other users.
C26_CreatedUserStaysActiveInSlot ==
  (lastOp.op \in {"handleSubmit", "handleDelete"} /\ lastOp.id \notin { u.id : u \in CreatedUsers }) =>
    \A u \in CreatedUsers :
      u.status = "active" =>
        \E k \in 1..Len(lsUsers) :
          /\ lsUsers[k].email = u.email
          /\ lsUsers[k].password = u.password
          /\ Has(lsUsers[k], "isActive")
          /\ lsUsers[k].isActive = TRUE

\* C30: TaskChat.sendMessage changes only the `chat_<taskId>` slot and the local
\* message list, each by the one message appended: the store's chatMessages and
\* notifications (and every other collection and slot) are unchanged; an empty or
\* whitespace-only message changes nothing.
C30_SendMessageFrame ==
  [][ Called("sendMessage") =>
        /\ UNCHANGED <<collections, lsUsers, session, usersAtLoad>>
        /\ storage' = [storage EXCEPT !.chat = storage'.chat]
        /\ chat' = [chat EXCEPT !.messages = chat'.messages]
        /\ IF IsBlank(lastOp'.arg.newMessage)
             THEN UNCHANGED <<storage, chat>>
             ELSE lastOp'.arg.sent =>
                    /\ Len(chat'.messages) = Len(chat.messages) + 1
                    /\ SubSeq(chat'.messages, 1, Len(chat.messages)) = chat.messages
                    /\ chat'.messages[Len(chat'.messages)].message = lastOp'.arg.newMessage
                    /\ storage'.chat = JsonSlot(JSONStringify(chat'.messages)) ]_vars

\* C30 witness: a message with a mention was sent in the chat of task 1 and is the
\* last of the slot, while the store holds its seeded chat messages only.
C30_Witness ==
  /\ lastOp.op = "sendMessage"
  /\ lastOp.arg.sent
  /\ storage.chat.kind = "json"
  /\ storage.chat.value[Len(storage.chat.value)].id = now
  /\ storage.chat.value[Len(storage.chat.value)].mentions = <<3>>
  /\ chatMessages = defaultChatMessages

\* The message that sendMessage has just written to the `chat_1` slot
SentMessage == storage.chat.value[Len(storage.chat.value)]

\* C21: after a message was sent on task 1 through TaskChat.sendMessage, the Messages
\* conversation of the task reports it as lastMessage, and the unread count of
\* TaskManagement counts it for every other user that has not opened the chat since
\* (where the engine reads the missing last-read time '0' as a date).
C21_ReadersSeeSentMessage ==
  (lastOp.op = "sendMessage" /\ lastOp.arg.sent) =>
    /\ conversationLastMessage(storage) # Null
    /\ conversationLastMessage(storage).id = SentMessage.id
    /\ \A userId \in UserIds \ {SentMessage.userId} :
         \A zeroDate \in ZeroDates \ {InvalidDate} :
           LaterThan(SentMessage.timestamp, lastReadTimestamp(storage, userId, zeroDate))
             => getUnreadMessageCount(storage, userId, zeroDate) >= 1

\* The completed entries of a task's progress that reference a milestone of its type
CompletedOfType(task) ==
  { k \in 1..Len(ProgressOf(task)) :
      /\ ProgressOf(task)[k].completed
      /\ \E m \in 1..Len(MilestonesOf(task)) :
           MilestonesOf(task)[m].id = ProgressOf(task)[k].milestoneId }

\* p is x / n rounded to the nearest integer, halves upwards
IsRounded(p, x, n) == 2 * p * n <= 2 * x + n /\ 2 * x + n < 2 * (p + 1) * n

\* C23: whatever handleMilestoneToggle calls were made, the milestoneProgress of every
\* task holds at most one entry per milestoneId; after a toggle the entry of the
\* milestone has the completed flag of that toggle, and the toggling user as
\* completedById when completed; the percentage shown is
\* round(100 * completed entries of milestones of the type / milestones of the type).
C23_MilestoneProgress ==
  [][ /\ ( \A i \in 1..Len(tasks) :
              /\ \A j, k \in 1..Len(ProgressOf(tasks[i])) :
                   ProgressOf(tasks[i])[j].milestoneId = ProgressOf(tasks[i])[k].milestoneId
                     => j = k
              /\ Len(MilestonesOf(tasks[i])) > 0 =>
                   IsRounded(completionPercentage(tasks[i]),
                             100 * Cardinality(CompletedOfType(tasks[i])),
                             Len(MilestonesOf(tasks[i]))) )'
      /\ Called("handleMilestoneToggle") =>
           LET task == tasks'[IndexOfId(tasks', lastOp'.id)]
               entries == SelectSeq(ProgressOf(task),
                            LAMBDA mp : mp.milestoneId = lastOp'.arg.milestoneId)
           IN /\ Len(entries) = 1
              /\ entries[1].completed = lastOp'.arg.completed
              /\ lastOp'.arg.completed => entries[1].completedById = lastOp'.arg.userId ]_vars

\* C23 witness: the task type of task 1 has two milestones, one of them was toggled
\* to completed by user 2, and the card shows 50%.
C23_Witness ==
  /\ lastOp.op = "handleMilestoneToggle"
  /\ lastOp.id = 1
  /\ lastOp.arg.completed
  /\ Len(MilestonesOf(tasks[1])) = 2
  /\ Len(ProgressOf(tasks[1])) = 1
  /\ ProgressOf(tasks[1])[1].completedById = 2
  /\ completionPercentage(tasks[1]) = 50

\* C24: at most one interval timer of the overdue scan is active after every step
\* (each run of the effect cancels the timer of the previous run before it installs
\* its own), no timer is left after DataProvider is unmounted, and no scan fires from
\* a timer after the unmount.
C24_OneIntervalTimer ==
  [][ /\ Cardinality(provider'.timers) <= 1
      /\ (provider'.mounted /\ ~effectPending') => provider'.timers = {provider'.interval}
      /\ ~provider'.mounted => provider'.timers = {}
      /\ Called("interval") => provider.mounted ]_vars

\* C24 witness: DataProvider was unmounted after its effect had run again on a change
\* of tasks or notifications, and no timer is left.
C24_Witness ==
  /\ lastOp.op = "unmount"
  /\ ~provider.mounted
  /\ provider.timers = {}
  /\ scannedAt > 10

\* C27: the notification-generating effect of the bell reaches a fixed point: from
\* some time on it is not scheduled any more, so it has stopped setting its
\* notifications, also when a task assigned to the user has createdAt or updatedAt
\* later than lastCheck.
C27_BellEffectSettles == <>[](~BellEffectPending)

====
